---- MODULE Spec2Model ----
(***************************************************************************)
(* Model of the ai-sports-almanac2 prediction pipeline.                    *)
(*                                                                         *)
(*  - LLMPredictionService (src/server.js:90-475): requestWithRetry, the   *)
(*    four get<Provider>Prediction methods, getFallbackPrediction,         *)
(*    parseRecord, getPrediction and getAllPredictions.                    *)
(*  - scrapeMLBData in its three revisions: "multi"                        *)
(*    (src/unnamed/part_001:140-673), "service"                            *)
(*    (src/scripts/llm-integration/llm-prediction-service.js:462-889) and  *)
(*    "table" (src/scripts/llm-integration/fetch-and-predict.js:143-423),  *)
(*    with parseTeamName.  The `continue` in the rows.each callback of     *)
(*    the first two is modelled as leaving the row out.                    *)
(*  - main of the pipeline in two revisions: "current"                     *)
(*    (src/scripts/llm-integration/fetch-and-predict.js:530-625) and       *)
(*    "earlier" (src/unnamed/part_001:741-810).                            *)
(*                                                                         *)
(* Strings are sequences of tokens; a token is a character or a canned     *)
(* piece of text.  The empty JavaScript string is the empty sequence.      *)
(***************************************************************************)
EXTENDS Integers, Sequences, FiniteSets, TLC

VARIABLES
  mode,       \* "all": getAllPredictions runs; "one": getPrediction runs; "off": service idle
  target,     \* provider argument of getPrediction ("none" in the other modes)
  game,       \* the game argument of the running prediction call
  apiKeys,    \* this.apiKeys: provider -> TRUE when a credential is configured
  pc,         \* per provider call: "idle", "await" (HTTP in flight), "sleep" (backoff timer), "done"
  attempt,    \* requestWithRetry's loop variable, per provider
  delay,      \* requestWithRetry's delay variable (ms), per provider
  waits,      \* per provider: the backoff delays (ms) that have elapsed, in order
  httpCalls,  \* per provider: number of HTTP requests issued
  hist,       \* per provider: outcomes of the HTTP attempts, in order
  result,     \* per provider: value the provider promise resolved with
  allPc,      \* the caller: "init", "pending", "returned"
  returned,   \* value getAllPredictions / getPrediction resolved with
  variant,    \* revision of scrapeMLBData that runs: "multi", "service", "table"; "none" when idle
  spc,        \* scrapeMLBData: "off", "init", "fetching" (page request in flight), "api", "done"
  page,       \* the document cheerio loaded
  tried,      \* the strategies attempted so far, in order
  produced,   \* strategy -> the games it added
  sgames,     \* the local variable games of scrapeMLBData
  apiCalls,   \* number of requests sent to the stats API
  sfailure,   \* what failed in this run: "none", "fetch", "parse", "strategy", "api"
  sresult,    \* settlement of the promise scrapeMLBData returned
  fargs,      \* arguments of the calls of a function run on its own
  fout,       \* the values those calls returned so far, in order
  rev,        \* revision of the pipeline's main that runs: "current", "earlier"; "none" when idle
  ppc,        \* main: "off", "main", "scrape", "connect", "predict", "store", "render", "close", "done"
  batch,      \* games.length of the batch scrapeMLBData returned
  pkeys,      \* providers the pipeline's prediction service holds a credential for
  mongoConnected, \* the local variable mongoConnected of main
  pidx,       \* main's loop variable i, counted from 1
  req,        \* game -> provider -> "none", "flying" (request outstanding), "backoff", "settled"
  tries,      \* game -> provider -> retries made by the running call (0 once it settled)
  gstat,      \* game -> "pending", "predicting", "storing", "stored", "refused", "threw", "unstored"
  rendered,   \* updateHtmlWithPredictions(games): "none" (not called), "written", "failed"
  preds,      \* game -> provider -> game.predictions entry: "none" (absent), "placeholder", "text", "empty"
  closeCalls, \* number of calls of mongoService.close()
  exitCode,   \* process.exitCode of the pipeline's process
  records,    \* the prediction store: the persisted records, in insertion order
  clock,      \* the store's clock (ms)
  stored,     \* the storePredictions calls made: gameId, predictions and the clock at each
  html,       \* index.html as a sequence of pieces: tags, and marker comments with their timestamp
  runs        \* the pipeline runs made against index.html

predictVars == <<mode, target, game, apiKeys, pc, attempt, delay, waits,
                 httpCalls, hist, result, allPc, returned>>

scrapeVars == <<variant, spc, page, tried, produced, sgames, apiCalls, sfailure, sresult>>

pureVars == <<fargs, fout>>

pipeVars == <<rev, ppc, batch, pkeys, mongoConnected, pidx, req, tries, gstat, rendered,
             preds, closeCalls, exitCode>>

siteVars == <<records, clock, stored, html, runs>>

vars == <<predictVars, scrapeVars, pureVars, pipeVars, siteVars>>

----------------------------------------------------------------------------
(* Strings *)

Whitespace == {" ", "\n", "\t"}

RECURSIVE TrimStart(_)
TrimStart(s) ==
  IF s = <<>> THEN <<>>
  ELSE IF Head(s) \in Whitespace THEN TrimStart(Tail(s)) ELSE s

RECURSIVE TrimEnd(_)
TrimEnd(s) ==
  IF s = <<>> THEN <<>>
  ELSE IF s[Len(s)] \in Whitespace THEN TrimEnd(SubSeq(s, 1, Len(s) - 1)) ELSE s

\* String.prototype.trim
Trim(s) == TrimEnd(TrimStart(s))

Digits == <<"0", "1", "2", "3", "4", "5", "6", "7", "8", "9">>

DigitVal(c) == (CHOOSE i \in 1..10 : Digits[i] = c) - 1

IsDigit(c) == \E i \in 1..10 : Digits[i] = c

\* Decimal rendering of a natural number (template literal ${n})
RECURSIVE NumStr(_)
NumStr(n) == IF n < 10 THEN <<Digits[n + 1]>> ELSE NumStr(n \div 10) \o <<Digits[(n % 10) + 1]>>

\* String.prototype.split(sep) for a one-token separator
RECURSIVE SplitAcc(_, _, _)
SplitAcc(s, sep, cur) ==
  IF s = <<>> THEN <<cur>>
  ELSE IF Head(s) = sep THEN <<cur>> \o SplitAcc(Tail(s), sep, <<>>)
  ELSE SplitAcc(Tail(s), sep, Append(cur, Head(s)))

Split(s, sep) == SplitAcc(s, sep, <<>>)

\* parseInt(s) || 0 for unsigned input: leading whitespace skipped, the
\* longest digit prefix read, NaN (no digit) coerced to 0.
RECURSIVE DigitPrefixVal(_, _)
DigitPrefixVal(s, acc) ==
  IF s = <<>> \/ ~IsDigit(Head(s)) THEN acc
  ELSE DigitPrefixVal(Tail(s), acc * 10 + DigitVal(Head(s)))

ParseIntOrZero(s) == DigitPrefixVal(TrimStart(s), 0)

----------------------------------------------------------------------------
(* Providers, credentials, HTTP outcomes *)

Providers == {"openai", "anthropic", "grok", "deepseek"}

\* Order of the array handed to Promise.all
ProviderOrder == <<"openai", "anthropic", "grok", "deepseek">>

\* requestWithRetry default parameters
DefaultRetries == 3
InitialDelay == 1000
BackoffFactor == 2

\* An HTTP attempt's outcome: status 0 = the request produced no response
\* (timeout after 10 s, DNS/connection error: error.response is undefined);
\* status 200 = resolved, body names the completion text of the envelope.
NoBody == "none"

OkBodies == {"text", "blank", "empty", "malformed"}

Outcome(st, b) == [status |-> st, body |-> b]

\* Statuses explored for a single provider call
StatusesOne == {400, 401, 429, 500, 503}

\* Representatives explored when the four calls interleave
StatusesAll == {400, 500}

OutcomesOne ==
  {Outcome(st, NoBody) : st \in StatusesOne \cup {0}} \cup {Outcome(200, b) : b \in OkBodies}

OutcomesAll ==
  {Outcome(st, NoBody) : st \in StatusesAll \cup {0}} \cup {Outcome(200, b) : b \in {"text", "blank"}}

\* The completion text carried by a 2xx response of provider p
\* (response.data.choices[0].message.content / response.data.content[0].text)
Content(p, b) ==
  CASE b = "text"  -> <<" ", p, " says: ", "A - H: 2-4", "\n", "Reasoning.", "\n">>
    [] b = "blank" -> <<" ", "\n", " ">>
    [] OTHER       -> <<>>

----------------------------------------------------------------------------
(* Fallback Predictor *)

\* parseRecord: "W-L" -> wins, losses (NaN coerced to 0, a missing part too)
parseRecord(record) ==
  LET parts == Split(record, "-")
  IN [wins   |-> ParseIntOrZero(parts[1]),
      losses |-> IF Len(parts) >= 2 THEN ParseIntOrZero(parts[2]) ELSE 0]

\* wins / (wins + losses) || 0.5 as a fraction <<numerator, denominator>>:
\* 0/0 is NaN and 0/n is 0, both falsy, so both give 0.5.
WinPct(rec) == IF rec.wins = 0 THEN <<1, 2>> ELSE <<rec.wins, rec.wins + rec.losses>>

\* homeAdvantage = 0.05 = 1/20
HomeAdvantageDen == 20

\* adjustedHomeWinPct > awayWinPct, with adjustedHomeWinPct = homeWinPct + 1/20
HomeFavoured(h, a) ==
  (HomeAdvantageDen * h[1] + h[2]) * a[2] > HomeAdvantageDen * a[1] * h[2]

\* Math.round(100 * n / d) for positive fractions
RoundPct(n, d) == (200 * n + d) \div (2 * d)

\* Math.floor(Math.random() * 4) and Math.floor(Math.random() * 3)
WinDraws == 0..3
LoseDraws == 0..2

Justification(provider, g, fav, h, a) ==
  LET hn == g.homeTeam.name
      an == g.awayTeam.name
      adjN == HomeAdvantageDen * h[1] + h[2]   \* adjustedHomeWinPct = adjN / adjD
      adjD == HomeAdvantageDen * h[2]
      \* adjusted / (adjusted + away) and away / (adjusted + away)
      homeShare == RoundPct(adjN * a[2], adjN * a[2] + a[1] * adjD)
      awayShare == RoundPct(a[1] * adjD, adjN * a[2] + a[1] * adjD)
  IN CASE provider = "openai" ->
            IF fav THEN <<"The ">> \o hn \o <<" have a stronger record and home field advantage">>
                   ELSE <<"Despite playing away, the ">> \o an \o <<" have shown better form">>
       [] provider = "anthropic" ->
            IF fav THEN <<"After analyzing both teams' strengths and weaknesses, the ">> \o hn
                   ELSE <<"The ">> \o an \o <<" have been performing exceptionally well on the road">>
       [] provider = "grok" ->
            IF fav THEN <<"Looking at the batting averages and bullpen ERA, the ">> \o hn
                   ELSE <<"The ">> \o an \o <<" have been road warriors this season">>
       [] provider = "deepseek" ->
            IF fav THEN <<"Statistical analysis indicates the ">> \o hn \o <<" have a ">>
                          \o NumStr(homeShare) \o <<"% win probability">>
                   ELSE <<"Based on advanced metrics, the ">> \o an \o <<" have a ">>
                          \o NumStr(awayShare) \o <<"% chance to win">>
       [] OTHER ->
            IF fav THEN <<"The ">> \o hn \o <<" are favored to win at home">>
                   ELSE <<"The ">> \o an \o <<" are expected to win on the road">>

\* getFallbackPrediction(provider, game); r4 and r3 are the two Math.random
\* draws in call order (the first call fixes homeScore in both branches).
getFallbackPrediction(provider, g, r4, r3) ==
  LET h   == WinPct(parseRecord(g.homeTeam.record))
      a   == WinPct(parseRecord(g.awayTeam.record))
      fav == HomeFavoured(h, a)
      homeScore == IF fav THEN r4 + 3 ELSE r3 + 1
      awayScore == IF fav THEN r3 + 1 ELSE r4 + 3
      scoreLine == g.awayTeam.name \o <<" - ">> \o g.homeTeam.name \o <<": ">>
                     \o NumStr(awayScore) \o <<"-">> \o NumStr(homeScore)
  IN scoreLine \o <<"\n", "\n">> \o Justification(provider, g, fav, h, a)

\* Games handed to the prediction service: the first static sample game and
\* a card/free-text game whose records default to "0-0".
SampleGames ==
  { [id |-> "1",
     homeTeam |-> [name |-> <<"Arizona Diamondbacks">>, record |-> <<"2", "7", "-", "3", "1">>],
     awayTeam |-> [name |-> <<"Washington Nationals">>, record |-> <<"2", "8", "-", "3", "0">>]],
    [id |-> "2",
     homeTeam |-> [name |-> <<"Boston">>, record |-> <<"0", "-", "0">>],
     awayTeam |-> [name |-> <<"Miami">>, record |-> <<"0", "-", "0">>]] }

----------------------------------------------------------------------------
(* Values a provider promise resolves with *)

NoResult == [kind |-> "none"]

\* The trimmed completion text of a successful response
LlmEntry(p, text) == [kind |-> "llm", provider |-> p, text |-> text]

\* The value of getFallbackPrediction(p, game).  The two score draws never
\* influence control flow; the entry keeps them open and Texts enumerates them.
FallbackEntry(p) == [kind |-> "fallback", provider |-> p, text |-> <<>>]

\* Every string the entry can denote
Texts(e, g) ==
  IF e.kind = "fallback"
    THEN {getFallbackPrediction(e.provider, g, r4, r3) : r4 \in WinDraws, r3 \in LoseDraws}
    ELSE {e.text}

----------------------------------------------------------------------------
(* LLMPredictionService: one provider call *)

\* A provider promise that rejected (never produced by the code below: every
\* error of a provider call is turned into the fallback entry)
Rejected(p) == [kind |-> "rejected", provider |-> p, text |-> <<>>]

\* Mutant: the credential check is skipped
HasKey_Always(p) == TRUE

\* if (!this.apiKeys.<provider>) : a credential is configured when it is truthy
HasKey(p) == apiKeys[p]

\* Mutant: every 4xx and 5xx status is retried
IsTransient_Any4xx(status) == status >= 400 /\ status < 600

\* Mutant: a request without a response is retried too
IsTransient_NoStatus(status) == status = 0 \/ status = 429 \/ (status >= 500 /\ status < 600)

\* status === 429 || (status >= 500 && status < 600); error.response?.status is
\* undefined (0 here) when the request got no response, and undefined
\* compares false with every number.
IsTransient(status) == status = 429 \/ (status >= 500 /\ status < 600)

\* Mutant: the attempt limit is not consulted
ShouldRetry_NoLimit(att, status, retries) == IsTransient(status)

\* attempt < retries - 1 && (transient status)
ShouldRetry(att, status, retries) == att < retries - 1 /\ IsTransient(status)

\* Mutant: the loop of requestWithRetry does not count its attempts
NextAttempt_Stuck(att) == att

\* for (let attempt = 0; attempt < retries; attempt++)
NextAttempt(att) == att + 1

\* Mutant: the delay shrinks instead of growing
NextDelay_Halved(d) == d \div BackoffFactor

\* delay *= 2
NextDelay(d) == d * BackoffFactor

\* The catch block of get<Provider>Prediction
OnCallError(p) == FallbackEntry(p)

\* return response.data.choices[0].message.content.trim(); a malformed
\* envelope raises a TypeError inside the try block
ExtractText(p, body) ==
  IF body = "malformed" THEN OnCallError(p) ELSE LlmEntry(p, Trim(Content(p, body)))

\* The outcomes the transport can produce for one attempt
Outcomes == IF mode = "one" THEN OutcomesOne ELSE OutcomesAll

\* get<Provider>Prediction(game) up to its first await: without a credential
\* it returns the fallback at once, otherwise requestWithRetry starts with
\* attempt = 0, delay = 1000 and issues the first axios.post
LaunchPc(p) == IF HasKey(p) THEN "await" ELSE "done"

LaunchResult(p) == IF HasKey(p) THEN NoResult ELSE FallbackEntry(p)

LaunchCalls(p) == IF HasKey(p) THEN 1 ELSE 0

Launch(S) ==
  /\ pc' = [p \in Providers |-> IF p \in S THEN LaunchPc(p) ELSE pc[p]]
  /\ result' = [p \in Providers |-> IF p \in S THEN LaunchResult(p) ELSE result[p]]
  /\ httpCalls' = [p \in Providers |-> IF p \in S THEN LaunchCalls(p) ELSE httpCalls[p]]
  /\ attempt' = [p \in Providers |-> IF p \in S THEN 0 ELSE attempt[p]]
  /\ delay' = [p \in Providers |-> IF p \in S THEN InitialDelay ELSE delay[p]]
  /\ UNCHANGED <<waits, hist>>

\* The awaited axios.post of provider p settles with outcome o
HttpResponse(p) ==
  /\ pc[p] = "await"
  /\ \E o \in Outcomes :
       /\ hist' = [hist EXCEPT ![p] = Append(@, o)]
       /\ IF o.status = 200
            THEN /\ pc' = [pc EXCEPT ![p] = "done"]
                 /\ result' = [result EXCEPT ![p] = ExtractText(p, o.body)]
            ELSE IF ShouldRetry(attempt[p], o.status, DefaultRetries)
                   THEN /\ pc' = [pc EXCEPT ![p] = "sleep"]
                        /\ UNCHANGED result
                   ELSE /\ pc' = [pc EXCEPT ![p] = "done"]
                        /\ result' = [result EXCEPT ![p] = OnCallError(p)]
  /\ UNCHANGED <<mode, target, game, apiKeys, attempt, delay, waits, httpCalls, allPc, returned,
               scrapeVars, pureVars, pipeVars, siteVars>>

\* The setTimeout(res, delay) of requestWithRetry fires: delay doubles and the
\* loop advances.  While attempt < retries the next axios.post is issued;
\* otherwise the loop ends, requestWithRetry returns undefined and reading
\* response.data raises a TypeError inside the caller's try block.
BackoffElapsed(p) ==
  /\ pc[p] = "sleep"
  /\ waits' = [waits EXCEPT ![p] = Append(@, delay[p])]
  /\ delay' = [delay EXCEPT ![p] = NextDelay(@)]
  /\ attempt' = [attempt EXCEPT ![p] = NextAttempt(@)]
  /\ IF NextAttempt(attempt[p]) < DefaultRetries
       THEN /\ httpCalls' = [httpCalls EXCEPT ![p] = @ + 1]
            /\ pc' = [pc EXCEPT ![p] = "await"]
            /\ UNCHANGED result
       ELSE /\ pc' = [pc EXCEPT ![p] = "done"]
            /\ result' = [result EXCEPT ![p] = OnCallError(p)]
            /\ UNCHANGED httpCalls
  /\ UNCHANGED <<mode, target, game, apiKeys, hist, allPc, returned,
               scrapeVars, pureVars, pipeVars, siteVars>>

----------------------------------------------------------------------------
(* getAllPredictions *)

\* Mutant: only the first call is started before the await
StartedAtCall_FirstOnly == {"openai"}

\* The provider calls made while the array for Promise.all is built
StartedAtCall == Providers

\* Mutant: the first two values of the array are taken in the other order
Element_Swapped(p) ==
  LET q == IF p = "openai" THEN "anthropic" ELSE IF p = "anthropic" THEN "openai" ELSE p
  IN  IF result[q].kind = "rejected" THEN FallbackEntry(q) ELSE result[q]

\* <call>.catch(err => this.getFallbackPrediction(<provider>, game))
Element(p) == IF result[p].kind = "rejected" THEN FallbackEntry(p) ELSE result[p]

IsoNow == "timestamp"

\* return { openai, anthropic, grok, deepseek, timestamp }
PredictionSet ==
  [k \in Providers \cup {"timestamp"} |-> IF k = "timestamp" THEN IsoNow ELSE Element(k)]

CallAll ==
  /\ mode = "all"
  /\ allPc = "init"
  /\ Launch(StartedAtCall)
  /\ allPc' = "pending"
  /\ UNCHANGED <<mode, target, game, apiKeys, returned,
               scrapeVars, pureVars, pipeVars, siteVars>>

\* Promise.all resolves once every element has settled
ReturnAll ==
  /\ mode = "all"
  /\ allPc = "pending"
  /\ \A p \in Providers : pc[p] = "done"
  /\ returned' = PredictionSet
  /\ allPc' = "returned"
  /\ UNCHANGED <<mode, target, game, apiKeys, pc, attempt, delay, waits, httpCalls, hist, result,
               scrapeVars, pureVars, pipeVars, siteVars>>

(* getPrediction(provider, game) *)

CallOne ==
  /\ mode = "one"
  /\ allPc = "init"
  /\ Launch({target})
  /\ allPc' = "pending"
  /\ UNCHANGED <<mode, target, game, apiKeys, returned,
               scrapeVars, pureVars, pipeVars, siteVars>>

ReturnOne ==
  /\ mode = "one"
  /\ allPc = "pending"
  /\ pc[target] = "done"
  /\ returned' = Element(target)
  /\ allPc' = "returned"
  /\ UNCHANGED <<mode, target, game, apiKeys, pc, attempt, delay, waits, httpCalls, hist, result,
               scrapeVars, pureVars, pipeVars, siteVars>>

PredictIdle ==
  /\ pc = [p \in Providers |-> "idle"]
  /\ attempt = [p \in Providers |-> 0]
  /\ delay = [p \in Providers |-> InitialDelay]
  /\ waits = [p \in Providers |-> <<>>]
  /\ httpCalls = [p \in Providers |-> 0]
  /\ hist = [p \in Providers |-> <<>>]
  /\ result = [p \in Providers |-> NoResult]
  /\ allPc = "init"
  /\ returned = NoResult

----------------------------------------------------------------------------
(* Team Name Resolver *)

Lowers == <<"a", "b", "c", "d", "e", "f", "g", "h", "i", "j", "k", "l", "m", "n", "o", "p", "q", "r", "s", "t", "u", "v", "w", "x", "y", "z">>

Uppers == <<"A", "B", "C", "D", "E", "F", "G", "H", "I", "J", "K", "L", "M", "N", "O", "P", "Q", "R", "S", "T", "U", "V", "W", "X", "Y", "Z">>

IndexIn(c, seq) == IF \E i \in 1..Len(seq) : seq[i] = c THEN CHOOSE i \in 1..Len(seq) : seq[i] = c ELSE 0

IsLetter(c) == IndexIn(c, Lowers) > 0 \/ IndexIn(c, Uppers) > 0

IsWs(c) == c \in Whitespace

toUpperCase(s) ==
  [i \in 1..Len(s) |-> IF IndexIn(s[i], Lowers) > 0 THEN Uppers[IndexIn(s[i], Lowers)] ELSE s[i]]

toLowerCase(s) ==
  [i \in 1..Len(s) |-> IF IndexIn(s[i], Uppers) > 0 THEN Lowers[IndexIn(s[i], Uppers)] ELSE s[i]]

\* String.prototype.includes
Includes(s, k) == \E i \in 0..(Len(s) - Len(k)) : SubSeq(s, i + 1, i + Len(k)) = k

\* s.substring(0, n)
Prefix(s, n) == SubSeq(s, 1, IF Len(s) < n THEN Len(s) ELSE n)

SetMin(S) == CHOOSE x \in S : \A y \in S : x <= y

SetMax(S) == CHOOSE x \in S : \A y \in S : x >= y

\* The dictionary of parseTeamName, in declaration order: <<key, abbreviation>>
teamAbbreviations ==
  <<
     <<<<"A", "r", "i", "z", "o", "n", "a">>, <<"A", "R", "I">>>>,
     <<<<"A", "r", "i", "z", "o", "n", "a", " ", "D", "i", "a", "m", "o", "n", "d", "b", "a", "c", "k", "s">>, <<"A", "R", "I">>>>,
     <<<<"A", "r", "i", "z", "o", "n", "a", " ", "D", "'", "B", "a", "c", "k", "s">>, <<"A", "R", "I">>>>,
     <<<<"A", "r", "i", "z", "o", "n", "a", " ", "D", "-", "b", "a", "c", "k", "s">>, <<"A", "R", "I">>>>,
     <<<<"A", "t", "l", "a", "n", "t", "a">>, <<"A", "T", "L">>>>,
     <<<<"A", "t", "l", "a", "n", "t", "a", " ", "B", "r", "a", "v", "e", "s">>, <<"A", "T", "L">>>>,
     <<<<"B", "a", "l", "t", "i", "m", "o", "r", "e">>, <<"B", "A", "L">>>>,
     <<<<"B", "a", "l", "t", "i", "m", "o", "r", "e", " ", "O", "r", "i", "o", "l", "e", "s">>, <<"B", "A", "L">>>>,
     <<<<"B", "o", "s", "t", "o", "n">>, <<"B", "O", "S">>>>,
     <<<<"B", "o", "s", "t", "o", "n", " ", "R", "e", "d", " ", "S", "o", "x">>, <<"B", "O", "S">>>>,
     <<<<"C", "h", "i", "c", "a", "g", "o", " ", "C", "u", "b", "s">>, <<"C", "H", "C">>>>,
     <<<<"C", "h", "i", "c", "a", "g", "o", " ", "W", "h", "i", "t", "e", " ", "S", "o", "x">>, <<"C", "W", "S">>>>,
     <<<<"C", "h", "i", " ", "W", "h", "i", "t", "e", " ", "S", "o", "x">>, <<"C", "W", "S">>>>,
     <<<<"C", "i", "n", "c", "i", "n", "n", "a", "t", "i">>, <<"C", "I", "N">>>>,
     <<<<"C", "i", "n", "c", "i", "n", "n", "a", "t", "i", " ", "R", "e", "d", "s">>, <<"C", "I", "N">>>>,
     <<<<"C", "l", "e", "v", "e", "l", "a", "n", "d">>, <<"C", "L", "E">>>>,
     <<<<"C", "l", "e", "v", "e", "l", "a", "n", "d", " ", "G", "u", "a", "r", "d", "i", "a", "n", "s">>, <<"C", "L", "E">>>>,
     <<<<"C", "o", "l", "o", "r", "a", "d", "o">>, <<"C", "O", "L">>>>,
     <<<<"C", "o", "l", "o", "r", "a", "d", "o", " ", "R", "o", "c", "k", "i", "e", "s">>, <<"C", "O", "L">>>>,
     <<<<"D", "e", "t", "r", "o", "i", "t">>, <<"D", "E", "T">>>>,
     <<<<"D", "e", "t", "r", "o", "i", "t", " ", "T", "i", "g", "e", "r", "s">>, <<"D", "E", "T">>>>,
     <<<<"H", "o", "u", "s", "t", "o", "n">>, <<"H", "O", "U">>>>,
     <<<<"H", "o", "u", "s", "t", "o", "n", " ", "A", "s", "t", "r", "o", "s">>, <<"H", "O", "U">>>>,
     <<<<"K", "a", "n", "s", "a", "s", " ", "C", "i", "t", "y">>, <<"K", "C">>>>,
     <<<<"K", "a", "n", "s", "a", "s", " ", "C", "i", "t", "y", " ", "R", "o", "y", "a", "l", "s">>, <<"K", "C">>>>,
     <<<<"L", "o", "s", " ", "A", "n", "g", "e", "l", "e", "s", " ", "A", "n", "g", "e", "l", "s">>, <<"L", "A", "A">>>>,
     <<<<"L", "A", " ", "A", "n", "g", "e", "l", "s">>, <<"L", "A", "A">>>>,
     <<<<"L", "o", "s", " ", "A", "n", "g", "e", "l", "e", "s", " ", "D", "o", "d", "g", "e", "r", "s">>, <<"L", "A", "D">>>>,
     <<<<"L", "A", " ", "D", "o", "d", "g", "e", "r", "s">>, <<"L", "A", "D">>>>,
     <<<<"M", "i", "a", "m", "i">>, <<"M", "I", "A">>>>,
     <<<<"M", "i", "a", "m", "i", " ", "M", "a", "r", "l", "i", "n", "s">>, <<"M", "I", "A">>>>,
     <<<<"M", "i", "l", "w", "a", "u", "k", "e", "e">>, <<"M", "I", "L">>>>,
     <<<<"M", "i", "l", "w", "a", "u", "k", "e", "e", " ", "B", "r", "e", "w", "e", "r", "s">>, <<"M", "I", "L">>>>,
     <<<<"M", "i", "n", "n", "e", "s", "o", "t", "a">>, <<"M", "I", "N">>>>,
     <<<<"M", "i", "n", "n", "e", "s", "o", "t", "a", " ", "T", "w", "i", "n", "s">>, <<"M", "I", "N">>>>,
     <<<<"N", "e", "w", " ", "Y", "o", "r", "k", " ", "M", "e", "t", "s">>, <<"N", "Y", "M">>>>,
     <<<<"N", "e", "w", " ", "Y", "o", "r", "k", " ", "Y", "a", "n", "k", "e", "e", "s">>, <<"N", "Y", "Y">>>>,
     <<<<"O", "a", "k", "l", "a", "n", "d">>, <<"O", "A", "K">>>>,
     <<<<"O", "a", "k", "l", "a", "n", "d", " ", "A", "t", "h", "l", "e", "t", "i", "c", "s">>, <<"O", "A", "K">>>>,
     <<<<"P", "h", "i", "l", "a", "d", "e", "l", "p", "h", "i", "a">>, <<"P", "H", "I">>>>,
     <<<<"P", "h", "i", "l", "a", "d", "e", "l", "p", "h", "i", "a", " ", "P", "h", "i", "l", "l", "i", "e", "s">>, <<"P", "H", "I">>>>,
     <<<<"P", "i", "t", "t", "s", "b", "u", "r", "g", "h">>, <<"P", "I", "T">>>>,
     <<<<"P", "i", "t", "t", "s", "b", "u", "r", "g", "h", " ", "P", "i", "r", "a", "t", "e", "s">>, <<"P", "I", "T">>>>,
     <<<<"S", "a", "n", " ", "D", "i", "e", "g", "o">>, <<"S", "D">>>>,
     <<<<"S", "a", "n", " ", "D", "i", "e", "g", "o", " ", "P", "a", "d", "r", "e", "s">>, <<"S", "D">>>>,
     <<<<"S", "a", "n", " ", "F", "r", "a", "n", "c", "i", "s", "c", "o">>, <<"S", "F">>>>,
     <<<<"S", "a", "n", " ", "F", "r", "a", "n", "c", "i", "s", "c", "o", " ", "G", "i", "a", "n", "t", "s">>, <<"S", "F">>>>,
     <<<<"S", "e", "a", "t", "t", "l", "e">>, <<"S", "E", "A">>>>,
     <<<<"S", "e", "a", "t", "t", "l", "e", " ", "M", "a", "r", "i", "n", "e", "r", "s">>, <<"S", "E", "A">>>>,
     <<<<"S", "t", ".", " ", "L", "o", "u", "i", "s">>, <<"S", "T", "L">>>>,
     <<<<"S", "t", ".", " ", "L", "o", "u", "i", "s", " ", "C", "a", "r", "d", "i", "n", "a", "l", "s">>, <<"S", "T", "L">>>>,
     <<<<"T", "a", "m", "p", "a", " ", "B", "a", "y">>, <<"T", "B">>>>,
     <<<<"T", "a", "m", "p", "a", " ", "B", "a", "y", " ", "R", "a", "y", "s">>, <<"T", "B">>>>,
     <<<<"T", "e", "x", "a", "s">>, <<"T", "E", "X">>>>,
     <<<<"T", "e", "x", "a", "s", " ", "R", "a", "n", "g", "e", "r", "s">>, <<"T", "E", "X">>>>,
     <<<<"T", "o", "r", "o", "n", "t", "o">>, <<"T", "O", "R">>>>,
     <<<<"T", "o", "r", "o", "n", "t", "o", " ", "B", "l", "u", "e", " ", "J", "a", "y", "s">>, <<"T", "O", "R">>>>,
     <<<<"W", "a", "s", "h", "i", "n", "g", "t", "o", "n">>, <<"W", "S", "H">>>>,
     <<<<"W", "a", "s", "h", "i", "n", "g", "t", "o", "n", " ", "N", "a", "t", "i", "o", "n", "a", "l", "s">>, <<"W", "S", "H">>>>
  >>

\* The keys the earlier revision of the dictionary does not have
AddedKeys ==
  { <<"A", "r", "i", "z", "o", "n", "a", " ", "D", "'", "B", "a", "c", "k", "s">>,
    <<"A", "r", "i", "z", "o", "n", "a", " ", "D", "-", "b", "a", "c", "k", "s">>,
    <<"C", "h", "i", " ", "W", "h", "i", "t", "e", " ", "S", "o", "x">>,
    <<"L", "A", " ", "A", "n", "g", "e", "l", "s">>,
    <<"L", "A", " ", "D", "o", "d", "g", "e", "r", "s">> }

IsEarlierKey(entry) == entry[1] \notin AddedKeys

\* The dictionary of the multi-strategy revision of the script
teamAbbreviationsEarlier == SelectSeq(teamAbbreviations, IsEarlierKey)

\* Mutant: the default branch keeps one character more
AbbreviationLength_Four == 3 + 1

AbbreviationLength == 3

\* Property names every object literal inherits from Object.prototype:
\* teamAbbreviations[name] is a function or an object for them, not a string
InheritedKeys ==
  {<<"c", "o", "n", "s", "t", "r", "u", "c", "t", "o", "r">>,
   <<"t", "o", "S", "t", "r", "i", "n", "g">>,
   <<"v", "a", "l", "u", "e", "O", "f">>,
   <<"h", "a", "s", "O", "w", "n", "P", "r", "o", "p", "e", "r", "t", "y">>,
   <<"_", "_", "p", "r", "o", "t", "o", "_", "_">>}

\* The value of teamAbbreviations[name] for an inherited key, which is truthy
\* and not a string
InheritedMember == <<"[inherited member]">>

\* parseTeamName scanning for the last key contained in the name
parseTeamNameIn_LastKey(dict, name) ==
  LET exact   == {i \in 1..Len(dict) : dict[i][1] = name}
      partial == {i \in 1..Len(dict) : Includes(name, dict[i][1])}
  IN IF exact # {}
       THEN [fullName |-> name, abbreviation |-> dict[SetMin(exact)][2]]
     ELSE IF name \in InheritedKeys
       THEN [fullName |-> name, abbreviation |-> InheritedMember]
     ELSE IF partial # {}
       THEN [fullName |-> dict[SetMax(partial)][1], abbreviation |-> dict[SetMax(partial)][2]]
     ELSE [fullName |-> name, abbreviation |-> toUpperCase(Prefix(name, AbbreviationLength))]

\* parseTeamName(name): a truthy teamAbbreviations[name] (an own key, or an
\* inherited one), else the first key contained in the name, else the name
\* itself with its first three characters uppercased
parseTeamNameIn(dict, name) ==
  LET exact   == {i \in 1..Len(dict) : dict[i][1] = name}
      partial == {i \in 1..Len(dict) : Includes(name, dict[i][1])}
  IN IF exact # {}
       THEN [fullName |-> name, abbreviation |-> dict[SetMin(exact)][2]]
     ELSE IF name \in InheritedKeys
       THEN [fullName |-> name, abbreviation |-> InheritedMember]
     ELSE IF partial # {}
       THEN [fullName |-> dict[SetMin(partial)][1], abbreviation |-> dict[SetMin(partial)][2]]
     ELSE [fullName |-> name, abbreviation |-> toUpperCase(Prefix(name, AbbreviationLength))]

parseTeamName(name) == parseTeamNameIn(teamAbbreviations, name)

----------------------------------------------------------------------------
(* Text patterns of the scraper *)

NoMatch == [ok |-> FALSE]

RECURSIVE DigitRunEnd(_, _)
\* First index after the run of digits that starts at i
DigitRunEnd(s, i) == IF i <= Len(s) /\ IsDigit(s[i]) THEN DigitRunEnd(s, i + 1) ELSE i

RECURSIVE WsRunEnd(_, _)
\* First index after the run of whitespace that starts at i
WsRunEnd(s, i) == IF i <= Len(s) /\ IsWs(s[i]) THEN WsRunEnd(s, i + 1) ELSE i

\* /\d+-\d+/ anchored at i: the index after the match, 0 without a match
BareRecordEnd(s, i) ==
  LET a == DigitRunEnd(s, i)
      b == DigitRunEnd(s, a + 1)
  IN IF a > i /\ a <= Len(s) /\ s[a] = "-" /\ b > a + 1 THEN b ELSE 0

\* /\(\d+-\d+\)/ anchored at i: the index after the match, 0 without a match
ParenRecordEnd(s, i) ==
  LET e == BareRecordEnd(s, i + 1)
  IN IF i <= Len(s) /\ s[i] = "(" /\ e > 0 /\ e <= Len(s) /\ s[e] = ")" THEN e + 1 ELSE 0

ParenStarts(s) == {i \in 1..Len(s) : ParenRecordEnd(s, i) > 0}

BareStarts(s) == {i \in 1..Len(s) : BareRecordEnd(s, i) > 0}

RECURSIVE SplitRecordsFrom(_, _, _)
SplitRecordsFrom(s, i, start) ==
  IF i > Len(s) THEN <<SubSeq(s, start, Len(s))>>
  ELSE IF ParenRecordEnd(s, i) > 0
    THEN <<SubSeq(s, start, i - 1)>> \o SplitRecordsFrom(s, ParenRecordEnd(s, i), ParenRecordEnd(s, i))
  ELSE SplitRecordsFrom(s, i + 1, start)

\* teamsText.split(/\(\d+-\d+\)/)
SplitRecords(s) == SplitRecordsFrom(s, 1, 1)

\* teamsText.match(/(\d+-\d+)/): the first record, "W-L" without parentheses
FirstRecord(s) ==
  IF BareStarts(s) = {} THEN NoMatch
  ELSE LET i == SetMin(BareStarts(s))
       IN [ok |-> TRUE, text |-> SubSeq(s, i, BareRecordEnd(s, i) - 1)]

\* teamsText.match(/(\d+-\d+)(?!.*\d+-\d+)/): the leftmost record after which
\* no further record starts
LastRecord(s) ==
  LET final == {i \in BareStarts(s) : \A j \in BareStarts(s) : j < BareRecordEnd(s, i)}
  IN IF final = {} THEN NoMatch
     ELSE LET i == SetMin(final)
          IN [ok |-> TRUE, text |-> SubSeq(s, i, BareRecordEnd(s, i) - 1)]

\* The second record of /(.+?)\s*\((\d+-\d+)\)\s*(.+?)\s*\((\d+-\d+)\)/ once the
\* first record, starting at i, is fixed: after the whitespace behind the first
\* record the lazy third group needs one character at least, so the second
\* record is the first one that starts later; failing that, the whitespace
\* itself is the third group and the record right behind it the second.
SecondRecord(s, i) ==
  LET e     == ParenRecordEnd(s, i)
      w     == WsRunEnd(s, e)
      later == {j \in ParenStarts(s) : j >= w + 1}
  IN IF later # {} THEN [ok |-> TRUE, from |-> w, at |-> SetMin(later)]
     ELSE IF w > e /\ w \in ParenStarts(s) THEN [ok |-> TRUE, from |-> w, at |-> w]
     ELSE NoMatch

\* teamsText.match(teamRegex1) on a trimmed cell
TeamRegex1(s) ==
  LET firsts == {i \in ParenStarts(s) : i >= 2 /\ SecondRecord(s, i).ok}
  IN IF firsts = {} THEN NoMatch
     ELSE LET i == SetMin(firsts)
              r == SecondRecord(s, i)
          IN [ok |-> TRUE,
              away |-> Trim(SubSeq(s, 1, i - 1)),
              awayRecord |-> SubSeq(s, i + 1, ParenRecordEnd(s, i) - 2),
              home |-> Trim(SubSeq(s, r.from, r.at - 1)),
              homeRecord |-> SubSeq(s, r.at + 1, ParenRecordEnd(s, r.at) - 2)]

\* Index after "vs" or "vs." at j when whitespace and one more character
\* follow (case-insensitive), 0 otherwise
VsEnd(s, j) ==
  LET d == IF j + 2 <= Len(s) /\ s[j + 2] = "." THEN j + 3 ELSE j + 2
  IN IF /\ j + 1 <= Len(s)
        /\ toLowerCase(SubSeq(s, j, j + 1)) = <<"v", "s">>
        /\ d <= Len(s) /\ IsWs(s[d])
        /\ (WsRunEnd(s, d) <= Len(s) \/ WsRunEnd(s, d) - d >= 2)
       THEN d
       ELSE 0

\* teamsText.match(/(.+?)\s+vs\.?\s+(.+)/i) on a trimmed cell
TeamRegex2(s) ==
  LET at == {j \in 3..Len(s) : IsWs(s[j - 1]) /\ VsEnd(s, j) > 0}
  IN IF at = {} THEN NoMatch
     ELSE LET j == SetMin(at)
          IN [ok |-> TRUE,
              away |-> Trim(SubSeq(s, 1, j - 1)),
              home |-> Trim(SubSeq(s, VsEnd(s, j), Len(s)))]

\* A character of the class [A-Za-z\s]
IsNameChar(c) == IsLetter(c) \/ IsWs(c)

RECURSIVE NameRunEnd(_, _)
\* First index after the run of [A-Za-z\s] that starts at i
NameRunEnd(s, i) == IF i <= Len(s) /\ IsNameChar(s[i]) THEN NameRunEnd(s, i + 1) ELSE i

\* (vs\.?|at) anchored at j and followed by whitespace: the index after the
\* keyword, 0 without a match (case-sensitive)
KeywordEnd(s, j) ==
  IF j + 1 > Len(s) THEN 0
  ELSE IF SubSeq(s, j, j + 1) = <<"v", "s">>
    THEN IF j + 3 <= Len(s) /\ s[j + 2] = "." /\ IsWs(s[j + 3]) THEN j + 3
         ELSE IF j + 2 <= Len(s) /\ IsWs(s[j + 2]) THEN j + 2
         ELSE 0
  ELSE IF SubSeq(s, j, j + 1) = <<"a", "t">> /\ j + 2 <= Len(s) /\ IsWs(s[j + 2]) THEN j + 2
  ELSE 0

\* Where the third group of the free-text pattern starts when the keyword
\* ends at m: behind the whitespace if a name character follows it, on the
\* last whitespace character if there are two at least, 0 otherwise
HomeStart(s, m) ==
  LET g == WsRunEnd(s, m)
  IN IF g <= Len(s) /\ IsNameChar(s[g]) THEN g
     ELSE IF g - m >= 2 THEN g - 1
     ELSE 0

\* The ends k of the first group for which the pattern matches from i: the
\* group is s[i..k-1], whitespace and the keyword follow at k
AwayEnds(s, i) ==
  {k \in (i + 1)..NameRunEnd(s, i) :
     /\ k <= Len(s) /\ IsWs(s[k])
     /\ KeywordEnd(s, WsRunEnd(s, k)) > 0
     /\ HomeStart(s, KeywordEnd(s, WsRunEnd(s, k))) > 0}

RECURSIVE TextMatchesFrom(_, _)
TextMatchesFrom(s, i) ==
  IF i > Len(s) THEN <<>>
  ELSE IF AwayEnds(s, i) = {} THEN TextMatchesFrom(s, i + 1)
  ELSE LET k == SetMax(AwayEnds(s, i))      \* the first group is greedy
           h == HomeStart(s, KeywordEnd(s, WsRunEnd(s, k)))
           e == NameRunEnd(s, h)
       IN <<[away |-> Trim(SubSeq(s, i, k - 1)), home |-> Trim(SubSeq(s, h, e - 1))]>>
            \o TextMatchesFrom(s, e)

\* pageText.match(/([A-Za-z\s]+)\s+(vs\.?|at)\s+([A-Za-z\s]+)/g), each match
\* matched again for its two team groups
TextMatches(s) == TextMatchesFrom(s, 1)

\* \d{2}\/\d{2}\/\d{4} at position i
DateAt(s, i) ==
  /\ i + 9 <= Len(s)
  /\ \A k \in {0, 1, 3, 4, 6, 7, 8, 9} : IsDigit(s[i + k])
  /\ s[i + 2] = "/" /\ s[i + 5] = "/"

\* [AP]M, ignoring case, at position i
MeridiemAt(s, i) ==
  /\ i + 1 <= Len(s)
  /\ s[i] \in {"A", "a", "P", "p"}
  /\ s[i + 1] \in {"M", "m"}

\* (\d{1,2}):(\d{2})\s*([AP]M) at position j: the number of hour digits, or 0
ClockDigitsAt(s, j) ==
  LET fits(n) == /\ j + n + 2 <= Len(s)
                 /\ \A k \in 0..(n - 1) : IsDigit(s[j + k])
                 /\ s[j + n] = ":"
                 /\ IsDigit(s[j + n + 1]) /\ IsDigit(s[j + n + 2])
                 /\ MeridiemAt(s, WsRunEnd(s, j + n + 3))
  IN IF fits(2) THEN 2 ELSE IF fits(1) THEN 1 ELSE 0

\* timeText.match(/(\d{2})\/(\d{2})\/(\d{4})\s*(\d{1,2}):(\d{2})\s*([AP]M)/i)
DateTimeStarts(s) ==
  {i \in 1..Len(s) : DateAt(s, i) /\ ClockDigitsAt(s, WsRunEnd(s, i + 10)) > 0}

\* timeText.match(/(\d{2})\/(\d{2})\/(\d{4})/)
DateStarts(s) == {i \in 1..Len(s) : DateAt(s, i)}

TwoDigits(s, i) == 10 * DigitVal(s[i]) + DigitVal(s[i + 1])

\* The fields of the leftmost match of the date-and-time pattern, or of the
\* date pattern with the clock set to 12:00 PM
TimeFields(s) ==
  IF DateTimeStarts(s) # {}
    THEN LET i == SetMin(DateTimeStarts(s))
             j == WsRunEnd(s, i + 10)
             n == ClockDigitsAt(s, j)
         IN [ok |-> TRUE, month |-> TwoDigits(s, i), day |-> TwoDigits(s, i + 3),
             hour |-> IF n = 2 THEN TwoDigits(s, j) ELSE DigitVal(s[j]),
             minute |-> TwoDigits(s, j + n + 1)]
  ELSE IF DateStarts(s) # {}
    THEN LET i == SetMin(DateStarts(s))
         IN [ok |-> TRUE, month |-> TwoDigits(s, i), day |-> TwoDigits(s, i + 3),
             hour |-> 12, minute |-> 0]
  ELSE [ok |-> FALSE, month |-> 0, day |-> 0, hour |-> 0, minute |-> 0]

\* new Date(`${month}/${day}/${year} ${hour}:${minute} ${ampm} ${offset}`) is a
\* valid date; toISOString() raises a RangeError on an invalid one
IsValidDate(f) ==
  /\ f.month \in 1..12
  /\ f.day \in 1..31
  /\ f.hour \in 1..12
  /\ f.minute \in 0..59

\* The time cell of a row makes parseEasternTimeToISO throw
TimeThrows(timeText) == TimeFields(timeText).ok /\ ~IsValidDate(TimeFields(timeText))

\* Days from 1970-01-01 to the date (Date.UTC)
DaysFromCivil(year, month, day) ==
  LET y == IF month <= 2 THEN year - 1 ELSE year
      yoe == y % 400
      doy == (153 * (IF month > 2 THEN month - 3 ELSE month + 9) + 2) \div 5 + day - 1
  IN  (y \div 400) * 146097 + yoe * 365 + yoe \div 4 - yoe \div 100 + doy - 719468

\* Day of the month of the first Sunday of the month (1970-01-01 was a Thursday)
FirstSunday(year, month) == 1 + ((7 - ((DaysFromCivil(year, month, 1) + 4) % 7)) % 7)

\* toLocaleString with timeZone 'America/New_York' names the zone "EDT" at a
\* UTC minute from 07:00 UTC of the second Sunday of March up to 06:00 UTC of
\* the first Sunday of November
IsEDT(utc, year) ==
  /\ utc >= DaysFromCivil(year, 3, FirstSunday(year, 3) + 7) * 1440 + 7 * 60
  /\ utc < DaysFromCivil(year, 11, FirstSunday(year, 11)) * 1440 + 6 * 60

\* The hour of the day of a 12-hour clock reading
Hour24(hour, ampm) == (hour % 12) + (IF ampm = "PM" THEN 12 ELSE 0)

\* parseEasternTimeToISO: the UTC instant, in minutes since 1970-01-01, of the
\* clock reading taken with the offset New York has at 12:00 UTC of that date
parseEasternTimeToISO(month, day, year, hour, minute, ampm) ==
  DaysFromCivil(year, month, day) * 1440 + Hour24(hour, ampm) * 60 + minute
    + (IF IsEDT(DaysFromCivil(year, month, day) * 1440 + 12 * 60, year) THEN 4 ELSE 5) * 60

----------------------------------------------------------------------------
(* Schedule Scraper: games and strategies *)
(* A game keeps the fields id, homeTeam, awayTeam, venue and note; note is   *)
(* empty when the object has no such field.  Cell texts hold no line break. *)

Zero0 == <<"0", "-", "0">>

\* The game object built by the table, card, free-text and API strategies
MakeGame(id, away, home, awayRecord, homeRecord, venue) ==
  [id |-> id,
   homeTeam |-> [name |-> home.fullName, abbreviation |-> home.abbreviation, record |-> homeRecord],
   awayTeam |-> [name |-> away.fullName, abbreviation |-> away.abbreviation, record |-> awayRecord],
   venue |-> IF venue = <<>> THEN home.fullName \o <<" Stadium">> ELSE venue,
   note |-> <<>>]

\* String(games.length + 1)
IndexId(games) == NumStr(Len(games) + 1)

Slug_HomeFirst(away, home) ==
  toLowerCase(home.abbreviation) \o <<"-">> \o toLowerCase(away.abbreviation)

\* `${awayTeam.abbreviation.toLowerCase()}-${homeTeam.abbreviation.toLowerCase()}`
Slug(away, home) == toLowerCase(away.abbreviation) \o <<"-">> \o toLowerCase(home.abbreviation)

\* The names and records of a row from the three attempts of the
\* multi-strategy revision: the two-record pattern, then "A vs B", then the
\* split on records; a row that fits none is skipped
TeamsMulti(m1, m2, parts, first, last) ==
  IF m1.ok THEN m1
  ELSE IF m2.ok THEN [ok |-> TRUE, away |-> m2.away, awayRecord |-> Zero0,
                      home |-> m2.home, homeRecord |-> Zero0]
  ELSE IF Len(parts) >= 2
    THEN [ok |-> TRUE, away |-> Trim(parts[1]),
          awayRecord |-> IF first.ok THEN first.text ELSE Zero0,
          home |-> Trim(parts[2]),
          homeRecord |-> IF last.ok THEN last.text ELSE Zero0]
  ELSE NoMatch

\* The team part of a table row in the multi-strategy revision
ParseTeamsMulti(teamsText) ==
  TeamsMulti(TeamRegex1(teamsText), TeamRegex2(teamsText), SplitRecords(teamsText),
             FirstRecord(teamsText), LastRecord(teamsText))

\* The names and records of a row in the current revision
TeamsSplit(parts, first, last) ==
  IF Len(parts) >= 2
    THEN [ok |-> TRUE, away |-> Trim(parts[1]),
          awayRecord |-> IF first.ok THEN first.text ELSE <<>>,
          home |-> Trim(parts[2]),
          homeRecord |-> IF last.ok THEN last.text ELSE <<>>]
    ELSE NoMatch

\* The team part of a table row in the current revision: split on records
ParseTeamsSplit(teamsText) ==
  TeamsSplit(SplitRecords(teamsText), FirstRecord(teamsText), LastRecord(teamsText))

\* The game of a table row from its parsed teams
TeamsGame(id, away, home, m) ==
  MakeGame(id, away, home, m.awayRecord, m.homeRecord, <<>>)

\* tableGames after a row of the multi-strategy revision with parsed teams m
PushRowMulti(tableGames, m) ==
  IF m.ok
    THEN Append(tableGames,
           TeamsGame(IndexId(tableGames),
                     parseTeamNameIn(teamAbbreviationsEarlier, m.away),
                     parseTeamNameIn(teamAbbreviationsEarlier, m.home), m))
    ELSE tableGames

\* rows.each(...) of the multi-strategy revision: a row is its list of td texts
RECURSIVE RowsGamesMulti(_, _)
RowsGamesMulti(rows, tableGames) ==
  IF rows = <<>> THEN tableGames
  ELSE RowsGamesMulti(Tail(rows),
         PushRowMulti(tableGames,
           IF Len(Head(rows)) >= 2 THEN ParseTeamsMulti(Trim(Head(rows)[2])) ELSE NoMatch))

\* The game of a row of the current revision, whose id is the slug
SlugGame(away, home, m) == TeamsGame(Slug(away, home), away, home, m)

\* games after a row of the current revision with parsed teams m
PushRowSplit(games, m) ==
  IF m.ok THEN Append(games, SlugGame(parseTeamName(m.away), parseTeamName(m.home), m))
  ELSE games

\* rows.each(...) of the current revision; an invalid date in a time cell
\* throws out of the loop
RECURSIVE RowsGamesSplit(_, _)
RowsGamesSplit(rows, games) ==
  IF rows = <<>> THEN [threw |-> FALSE, games |-> games]
  ELSE IF Len(Head(rows)) >= 2 /\ TimeThrows(Trim(Head(rows)[1]))
    THEN [threw |-> TRUE, games |-> games]
  ELSE RowsGamesSplit(Tail(rows),
         PushRowSplit(games,
           IF Len(Head(rows)) >= 2 THEN ParseTeamsSplit(Trim(Head(rows)[2])) ELSE NoMatch))

\* find('tr').slice(1)
DataRows(table) == IF table = <<>> THEN <<>> ELSE Tail(table)

\* Strategy 1 of the multi-strategy revision: the first table that yields games
RECURSIVE TablesGamesMulti(_)
FirstNonEmpty(tableGames, rest) ==
  IF tableGames # <<>> THEN tableGames ELSE TablesGamesMulti(rest)

TablesGamesMulti(tables) ==
  IF tables = <<>> THEN <<>>
  ELSE FirstNonEmpty(RowsGamesMulti(DataRows(Head(tables)), <<>>), Tail(tables))

\* The table strategy of the current revision: tables[0] only
TableGamesSplit(tables) ==
  IF tables = <<>> THEN [threw |-> FALSE, games |-> <<>>]
  ELSE RowsGamesSplit(DataRows(Head(tables)), <<>>)

\* Strategy 2: gameCards.each(...); a card is its lists of team and record
\* element texts
RECURSIVE CardsGames(_, _)
CardsGames(cards, games) ==
  IF cards = <<>> THEN games
  ELSE LET c == Head(cards)
       IN CardsGames(Tail(cards),
            IF Len(c.teams) >= 2
              THEN Append(games,
                     MakeGame(IndexId(games),
                              parseTeamNameIn(teamAbbreviationsEarlier, Trim(c.teams[1])),
                              parseTeamNameIn(teamAbbreviationsEarlier, Trim(c.teams[2])),
                              IF Len(c.records) >= 2 THEN Trim(c.records[1]) ELSE Zero0,
                              IF Len(c.records) >= 2 THEN Trim(c.records[2]) ELSE Zero0,
                              <<>>))
              ELSE games)

\* Strategy 3: gameMatches.forEach(...)
RECURSIVE MatchesGames(_, _)
MatchesGames(matches, games) ==
  IF matches = <<>> THEN games
  ELSE MatchesGames(Tail(matches),
         Append(games,
           MakeGame(IndexId(games),
                    parseTeamNameIn(teamAbbreviationsEarlier, Head(matches).away),
                    parseTeamNameIn(teamAbbreviationsEarlier, Head(matches).home),
                    Zero0, Zero0, <<>>)))

RECURSIVE Concat(_)
Concat(seqs) == IF seqs = <<>> THEN <<>> ELSE Head(seqs) \o Concat(Tail(seqs))

CardText(c) == Concat(c.teams) \o Concat(c.records)

\* $('body').text(): the text of the table cells, of the cards and of the rest
BodyText(pg) ==
  Concat([i \in 1..Len(pg.tables) |->
            Concat([j \in 1..Len(pg.tables[i]) |-> Concat(pg.tables[i][j])])])
    \o Concat([i \in 1..Len(pg.cards) |-> CardText(pg.cards[i])])
    \o pg.prose

\* `${leagueRecord.wins}-${leagueRecord.losses}`, or '0-0' without a leagueRecord
LeagueRecord(r) ==
  IF r.present THEN NumStr(r.wins) \o <<"-">> \o NumStr(r.losses) ELSE Zero0

\* The team of an API game: the resolver in part_001, the API's own
\* abbreviation (or the first three letters of the name) in the service
ApiTeam(v, name, abbreviation) ==
  IF v = "multi" THEN parseTeamNameIn(teamAbbreviationsEarlier, name)
  ELSE [fullName |-> name,
        abbreviation |-> IF abbreviation # <<>> THEN abbreviation
                         ELSE toUpperCase(Prefix(name, AbbreviationLength))]

\* Strategy 4: forEach over dates[0].games inside its own try block; a list
\* entry without the expected structure raises a TypeError, which ends the
\* loop and keeps the games pushed so far
RECURSIVE ApiGames(_, _, _)
ApiGames(v, list, games) ==
  IF list = <<>> \/ ~Head(list).wellFormed THEN games
  ELSE LET g == Head(list)
       IN ApiGames(v, Tail(list),
            Append(games,
              MakeGame(IndexId(games),
                       ApiTeam(v, g.away, g.awayAbbreviation),
                       ApiTeam(v, g.home, g.homeAbbreviation),
                       LeagueRecord(g.awayRecord), LeagueRecord(g.homeRecord), g.venue)))

NoteNoData == <<"Dynamic game - no data available">>

NoteScrapingFailed == <<"Dynamic game - scraping failed">>

\* dynamicGames of the multi-strategy revision
DynamicGames(note) ==
  <<
     [id |-> <<"1">>, homeTeam |-> [name |-> <<"A", "r", "i", "z", "o", "n", "a", " ", "D", "i", "a", "m", "o", "n", "d", "b", "a", "c", "k", "s">>, abbreviation |-> <<"A", "R", "I">>, record |-> <<"2", "7", "-", "3", "1">>],
      awayTeam |-> [name |-> <<"W", "a", "s", "h", "i", "n", "g", "t", "o", "n", " ", "N", "a", "t", "i", "o", "n", "a", "l", "s">>, abbreviation |-> <<"W", "S", "H">>, record |-> <<"2", "8", "-", "3", "0">>],
      venue |-> <<"C", "h", "a", "s", "e", " ", "F", "i", "e", "l", "d", ",", " ", "P", "h", "o", "e", "n", "i", "x", ",", " ", "A", "Z">>, note |-> note],
     [id |-> <<"2">>, homeTeam |-> [name |-> <<"S", "e", "a", "t", "t", "l", "e", " ", "M", "a", "r", "i", "n", "e", "r", "s">>, abbreviation |-> <<"S", "E", "A">>, record |-> <<"3", "1", "-", "2", "6">>],
      awayTeam |-> [name |-> <<"M", "i", "n", "n", "e", "s", "o", "t", "a", " ", "T", "w", "i", "n", "s">>, abbreviation |-> <<"M", "I", "N">>, record |-> <<"3", "1", "-", "2", "6">>],
      venue |-> <<"T", "-", "M", "o", "b", "i", "l", "e", " ", "P", "a", "r", "k", ",", " ", "S", "e", "a", "t", "t", "l", "e", ",", " ", "W", "A">>, note |-> note],
     [id |-> <<"3">>, homeTeam |-> [name |-> <<"S", "a", "n", " ", "D", "i", "e", "g", "o", " ", "P", "a", "d", "r", "e", "s">>, abbreviation |-> <<"S", "D">>, record |-> <<"3", "2", "-", "2", "4">>],
      awayTeam |-> [name |-> <<"P", "i", "t", "t", "s", "b", "u", "r", "g", "h", " ", "P", "i", "r", "a", "t", "e", "s">>, abbreviation |-> <<"P", "I", "T">>, record |-> <<"2", "2", "-", "3", "7">>],
      venue |-> <<"P", "e", "t", "c", "o", " ", "P", "a", "r", "k", ",", " ", "S", "a", "n", " ", "D", "i", "e", "g", "o", ",", " ", "C", "A">>, note |-> note],
     [id |-> <<"4">>, homeTeam |-> [name |-> <<"L", "o", "s", " ", "A", "n", "g", "e", "l", "e", "s", " ", "D", "o", "d", "g", "e", "r", "s">>, abbreviation |-> <<"L", "A", "D">>, record |-> <<"3", "6", "-", "2", "2">>],
      awayTeam |-> [name |-> <<"N", "e", "w", " ", "Y", "o", "r", "k", " ", "Y", "a", "n", "k", "e", "e", "s">>, abbreviation |-> <<"N", "Y", "Y">>, record |-> <<"3", "5", "-", "2", "2">>],
      venue |-> <<"D", "o", "d", "g", "e", "r", " ", "S", "t", "a", "d", "i", "u", "m", ",", " ", "L", "o", "s", " ", "A", "n", "g", "e", "l", "e", "s", ",", " ", "C", "A">>, note |-> note]
  >>

\* manualGames of the current revision
ManualGames ==
  <<
     [id |-> <<"w", "s", "h", "-", "a", "r", "i">>, homeTeam |-> [name |-> <<"A", "r", "i", "z", "o", "n", "a", " ", "D", "i", "a", "m", "o", "n", "d", "b", "a", "c", "k", "s">>, abbreviation |-> <<"A", "R", "I">>, record |-> <<"2", "7", "-", "3", "1">>],
      awayTeam |-> [name |-> <<"W", "a", "s", "h", "i", "n", "g", "t", "o", "n", " ", "N", "a", "t", "i", "o", "n", "a", "l", "s">>, abbreviation |-> <<"W", "S", "H">>, record |-> <<"2", "8", "-", "3", "0">>],
      venue |-> <<"C", "h", "a", "s", "e", " ", "F", "i", "e", "l", "d", ",", " ", "P", "h", "o", "e", "n", "i", "x", ",", " ", "A", "Z">>, note |-> <<>>],
     [id |-> <<"m", "i", "n", "-", "s", "e", "a">>, homeTeam |-> [name |-> <<"S", "e", "a", "t", "t", "l", "e", " ", "M", "a", "r", "i", "n", "e", "r", "s">>, abbreviation |-> <<"S", "E", "A">>, record |-> <<"3", "1", "-", "2", "6">>],
      awayTeam |-> [name |-> <<"M", "i", "n", "n", "e", "s", "o", "t", "a", " ", "T", "w", "i", "n", "s">>, abbreviation |-> <<"M", "I", "N">>, record |-> <<"3", "1", "-", "2", "6">>],
      venue |-> <<"T", "-", "M", "o", "b", "i", "l", "e", " ", "P", "a", "r", "k", ",", " ", "S", "e", "a", "t", "t", "l", "e", ",", " ", "W", "A">>, note |-> <<>>],
     [id |-> <<"p", "i", "t", "-", "s", "d">>, homeTeam |-> [name |-> <<"S", "a", "n", " ", "D", "i", "e", "g", "o", " ", "P", "a", "d", "r", "e", "s">>, abbreviation |-> <<"S", "D">>, record |-> <<"3", "2", "-", "2", "4">>],
      awayTeam |-> [name |-> <<"P", "i", "t", "t", "s", "b", "u", "r", "g", "h", " ", "P", "i", "r", "a", "t", "e", "s">>, abbreviation |-> <<"P", "I", "T">>, record |-> <<"2", "2", "-", "3", "7">>],
      venue |-> <<"P", "e", "t", "c", "o", " ", "P", "a", "r", "k", ",", " ", "S", "a", "n", " ", "D", "i", "e", "g", "o", ",", " ", "C", "A">>, note |-> <<>>],
     [id |-> <<"n", "y", "y", "-", "l", "a", "d">>, homeTeam |-> [name |-> <<"L", "o", "s", " ", "A", "n", "g", "e", "l", "e", "s", " ", "D", "o", "d", "g", "e", "r", "s">>, abbreviation |-> <<"L", "A", "D">>, record |-> <<"3", "6", "-", "2", "2">>],
      awayTeam |-> [name |-> <<"N", "e", "w", " ", "Y", "o", "r", "k", " ", "Y", "a", "n", "k", "e", "e", "s">>, abbreviation |-> <<"N", "Y", "Y">>, record |-> <<"3", "5", "-", "2", "2">>],
      venue |-> <<"D", "o", "d", "g", "e", "r", " ", "S", "t", "a", "d", "i", "u", "m", ",", " ", "L", "o", "s", " ", "A", "n", "g", "e", "l", "e", "s", ",", " ", "C", "A">>, note |-> <<>>]
  >>

\* manualGames of the prediction-service revision
ManualGamesService ==
  <<
     [id |-> <<"1">>, homeTeam |-> [name |-> <<"N", "e", "w", " ", "Y", "o", "r", "k", " ", "Y", "a", "n", "k", "e", "e", "s">>, abbreviation |-> <<"N", "Y", "Y">>, record |-> <<"3", "5", "-", "1", "8">>],
      awayTeam |-> [name |-> <<"B", "o", "s", "t", "o", "n", " ", "R", "e", "d", " ", "S", "o", "x">>, abbreviation |-> <<"B", "O", "S">>, record |-> <<"3", "0", "-", "2", "3">>],
      venue |-> <<"Y", "a", "n", "k", "e", "e", " ", "S", "t", "a", "d", "i", "u", "m">>, note |-> <<>>],
     [id |-> <<"2">>, homeTeam |-> [name |-> <<"L", "o", "s", " ", "A", "n", "g", "e", "l", "e", "s", " ", "D", "o", "d", "g", "e", "r", "s">>, abbreviation |-> <<"L", "A", "D">>, record |-> <<"3", "8", "-", "1", "5">>],
      awayTeam |-> [name |-> <<"S", "a", "n", " ", "F", "r", "a", "n", "c", "i", "s", "c", "o", " ", "G", "i", "a", "n", "t", "s">>, abbreviation |-> <<"S", "F">>, record |-> <<"2", "8", "-", "2", "5">>],
      venue |-> <<"D", "o", "d", "g", "e", "r", " ", "S", "t", "a", "d", "i", "u", "m">>, note |-> <<>>],
     [id |-> <<"3">>, homeTeam |-> [name |-> <<"C", "h", "i", "c", "a", "g", "o", " ", "C", "u", "b", "s">>, abbreviation |-> <<"C", "H", "C">>, record |-> <<"2", "5", "-", "2", "8">>],
      awayTeam |-> [name |-> <<"S", "t", ".", " ", "L", "o", "u", "i", "s", " ", "C", "a", "r", "d", "i", "n", "a", "l", "s">>, abbreviation |-> <<"S", "T", "L">>, record |-> <<"2", "7", "-", "2", "6">>],
      venue |-> <<"W", "r", "i", "g", "l", "e", "y", " ", "F", "i", "e", "l", "d">>, note |-> <<>>]
  >>

----------------------------------------------------------------------------
(* Pages and stats API responses the scraper is run on *)
(* A table is its list of tr rows, a row its list of td texts (the header   *)
(* row has none); a card is its lists of team and record element texts.     *)

NoPage == [tables |-> <<>>, cards |-> <<>>, prose |-> <<>>]

TableLists ==
  LET TimeGood == <<"0", "6", "/", "0", "1", "/", "2", "0", "2", "5", " ", "0", "8", ":", "1", "0", " ", "P", "M">>
      TimeBad == <<"1", "3", "/", "0", "1", "/", "2", "0", "2", "5", " ", "8", ":", "1", "0", " ", "P", "M">>
      TimeNone == <<"T", "B", "D">>
      HeaderRow == <<>>
      TableGood ==
        <<HeaderRow,
          <<TimeGood, <<"W", "a", "s", "h", "i", "n", "g", "t", "o", "n", " ", "N", "a", "t", "i", "o", "n", "a", "l", "s", " ", "(", "2", "8", "-", "3", "0", ")", "A", "r", "i", "z", "o", "n", "a", " ", "D", "i", "a", "m", "o", "n", "d", "b", "a", "c", "k", "s", " ", "(", "2", "7", "-", "3", "1", ")">>>>,
          <<TimeNone, <<" ", "M", "i", "n", "n", "e", "s", "o", "t", "a", " ", "T", "w", "i", "n", "s", " ", "(", "3", "1", "-", "2", "6", ")", " ", "S", "e", "a", "t", "t", "l", "e", " ", "M", "a", "r", "i", "n", "e", "r", "s", " ", "(", "3", "1", "-", "2", "6", ")", " ">>>>>>
      TableJunk ==
        <<HeaderRow,
          <<<<"S", "t", "a", "n", "d", "i", "n", "g", "s">>>>,
          <<TimeGood, <<"R", "a", "i", "n", " ", "d", "e", "l", "a", "y">>>>>>
      TableVs ==
        <<HeaderRow,
          <<TimeNone, <<"C", "h", "i", "c", "a", "g", "o", " ", "C", "u", "b", "s", " ", "v", "s", " ", "C", "i", "n", "c", "i", "n", "n", "a", "t", "i", " ", "R", "e", "d", "s">>>>>>
      TableOneRecord ==
        <<HeaderRow,
          <<TimeGood, <<"P", "i", "t", "t", "s", "b", "u", "r", "g", "h", " ", "P", "i", "r", "a", "t", "e", "s", " ", "(", "2", "2", "-", "3", "7", ")", " ", "S", "a", "n", " ", "D", "i", "e", "g", "o", " ", "P", "a", "d", "r", "e", "s">>>>>>
      TableBadTime ==
        <<HeaderRow,
          <<TimeBad, <<"N", "e", "w", " ", "Y", "o", "r", "k", " ", "Y", "a", "n", "k", "e", "e", "s", " ", "(", "3", "5", "-", "2", "2", ")", "L", "o", "s", " ", "A", "n", "g", "e", "l", "e", "s", " ", "D", "o", "d", "g", "e", "r", "s", " ", "(", "3", "6", "-", "2", "2", ")">>>>>>
      TableDouble ==
        <<HeaderRow,
          <<TimeGood, <<"C", "h", "i", "c", "a", "g", "o", " ", "C", "u", "b", "s", " ", "(", "2", "5", "-", "2", "8", ")", "S", "t", ".", " ", "L", "o", "u", "i", "s", " ", "C", "a", "r", "d", "i", "n", "a", "l", "s", " ", "(", "2", "7", "-", "2", "6", ")">>>>,
          <<TimeNone, <<"C", "h", "i", "c", "a", "g", "o", " ", "C", "u", "b", "s", " ", "(", "2", "5", "-", "2", "8", ")", "S", "t", ".", " ", "L", "o", "u", "i", "s", " ", "C", "a", "r", "d", "i", "n", "a", "l", "s", " ", "(", "2", "7", "-", "2", "6", ")">>>>>>
  IN {<<>>, <<TableGood>>, <<TableJunk>>, <<TableJunk, TableGood>>, <<TableVs>>,
     <<TableOneRecord>>, <<TableBadTime>>, <<TableDouble>>}

CardLists ==
  LET CardTeamsOnly ==
        [teams |-> <<<<"B", "o", "s", "t", "o", "n", " ", "R", "e", "d", " ", "S", "o", "x">>, <<"N", "e", "w", " ", "Y", "o", "r", "k", " ", "Y", "a", "n", "k", "e", "e", "s">>>>, records |-> <<>>]
      CardFull ==
        [teams |-> <<<<" ", "H", "o", "u", "s", "t", "o", "n", " ", "A", "s", "t", "r", "o", "s", " ">>, <<"T", "e", "x", "a", "s", " ", "R", "a", "n", "g", "e", "r", "s">>>>,
         records |-> <<<<"3", "0", "-", "2", "7">>, <<"2", "9", "-", "2", "9">>>>]
      CardOneTeam == [teams |-> <<<<"P", "o", "s", "t", "p", "o", "n", "e", "d">>>>, records |-> <<>>]
  IN {<<>>, <<CardTeamsOnly>>, <<CardOneTeam>>, <<CardOneTeam, CardFull>>}

Proses == {<<"N", "o", " ", "g", "a", "m", "e", "s", " ", "t", "o", "d", "a", "y">>, <<"C", "u", "b", "s", " ", "a", "t", " ", "R", "e", "d", "s">>}

Pages == [tables : TableLists, cards : CardLists, prose : Proses]

\* What the page request and the loading of the document can do
FetchOutcomes ==
  {[kind |-> "fetch", page |-> NoPage], [kind |-> "parse", page |-> NoPage]}
    \cup {[kind |-> "page", page |-> pg] : pg \in Pages}

ApiGamePool ==
  LET NoLeagueRecord == [present |-> FALSE, wins |-> 0, losses |-> 0]
      ApiGameFull ==
        [wellFormed |-> TRUE,
         away |-> <<"N", "e", "w", " ", "Y", "o", "r", "k", " ", "M", "e", "t", "s">>, awayAbbreviation |-> <<"N", "Y", "M">>,
         home |-> <<"A", "t", "l", "a", "n", "t", "a", " ", "B", "r", "a", "v", "e", "s">>, homeAbbreviation |-> <<"A", "T", "L">>,
         awayRecord |-> [present |-> TRUE, wins |-> 30, losses |-> 27],
         homeRecord |-> [present |-> TRUE, wins |-> 27, losses |-> 29],
         venue |-> <<"Truist Park">>]
      ApiGameBare ==
        [wellFormed |-> TRUE,
         away |-> <<"S", "u", "g", "a", "r", " ", "L", "a", "n", "d", " ", "S", "p", "a", "c", "e", " ", "C", "o", "w", "b", "o", "y", "s">>, awayAbbreviation |-> <<>>,
         home |-> <<"E", "l", " ", "P", "a", "s", "o", " ", "C", "h", "i", "h", "u", "a", "h", "u", "a", "s">>, homeAbbreviation |-> <<>>,
         awayRecord |-> NoLeagueRecord, homeRecord |-> NoLeagueRecord,
         venue |-> <<>>]
      ApiGameMalformed ==
        [wellFormed |-> FALSE,
         away |-> <<>>, awayAbbreviation |-> <<>>, home |-> <<>>, homeAbbreviation |-> <<>>,
         awayRecord |-> NoLeagueRecord, homeRecord |-> NoLeagueRecord,
         venue |-> <<>>]
  IN {ApiGameFull, ApiGameBare, ApiGameMalformed}

MaxApiGames == 2

ApiGameLists == UNION {[1..n -> ApiGamePool] : n \in 0..MaxApiGames}

\* What the stats API request can do: fail, answer without dates, or answer
\* with the games of dates[0]
ApiOutcomes ==
  {[kind |-> "error", hasDates |-> FALSE, games |-> <<>>],
   [kind |-> "data", hasDates |-> FALSE, games |-> <<>>]}
    \cup {[kind |-> "data", hasDates |-> TRUE, games |-> l] : l \in ApiGameLists}

----------------------------------------------------------------------------
(* Schedule Scraper: scrapeMLBData *)

StrategyOrder == <<"table", "card", "text", "api", "static">>

NoneProduced == [s \in {"table", "card", "text", "api", "static"} |-> <<>>]

Pending == [state |-> "pending", games |-> <<>>]

Resolved(games) == [state |-> "resolved", games |-> games]

StrategyNeeded_Always(games) == TRUE

\* if (games.length === 0)
StrategyNeeded(games) == games = <<>>

\* The games s added to the list when it ran on the list before
Added(before, after) == SubSeq(after, Len(before) + 1, Len(after))

\* The outcome of strategies 1 to 3 from the lists after each of them
PageOutcome(g1, g2, g3) ==
  [threw |-> FALSE, games |-> g3,
   tried |-> <<"table">> \o (IF StrategyNeeded(g1) THEN <<"card">> ELSE <<>>)
                         \o (IF StrategyNeeded(g2) THEN <<"text">> ELSE <<>>),
   produced |-> [NoneProduced EXCEPT !.table = g1,
                                     !.card = Added(g1, g2),
                                     !.text = Added(g2, g3)]]

\* Strategy 3 when strategies 1 and 2 left the list empty
AfterCards(pg, g1, g2) ==
  PageOutcome(g1, g2,
    IF StrategyNeeded(g2) THEN MatchesGames(TextMatches(BodyText(pg)), g2) ELSE g2)

\* Strategy 2 when strategy 1 left the list empty
AfterTables(pg, g1) ==
  AfterCards(pg, g1, IF StrategyNeeded(g1) THEN CardsGames(pg.cards, g1) ELSE g1)

\* The table strategy of the current revision, alone
TableOutcome(r) ==
  [threw |-> r.threw, games |-> r.games, tried |-> <<"table">>,
   produced |-> [NoneProduced EXCEPT !.table = r.games]]

\* The synchronous part after cheerio.load: strategies 1 to 3 in the
\* multi-strategy revisions, the table strategy alone in the current revision
PageStrategies(v, pg) ==
  IF v = "table" THEN TableOutcome(TableGamesSplit(pg.tables))
  ELSE AfterTables(pg, TablesGamesMulti(pg.tables))

\* The static sample used when no source produced a game
StaticGames(v) ==
  IF v = "multi" THEN DynamicGames(NoteNoData)
  ELSE IF v = "service" THEN ManualGamesService
  ELSE ManualGames

CatchGames_NoData(v) == StaticGames(v)

\* What the catch block around the whole function returns
CatchGames(v) ==
  IF v = "multi" THEN DynamicGames(NoteScrapingFailed)
  ELSE IF v = "service" THEN <<>>
  ELSE ManualGames

OuterCatch_Rethrow(v) == [state |-> "rejected", games |-> <<>>]

\* catch (error) { ... return ...; } around the whole function
OuterCatch(v) == Resolved(CatchGames(v))

\* An exception reached the outer catch block
Caught(failure) ==
  /\ spc' = "done"
  /\ sfailure' = failure
  /\ sresult' = OuterCatch(variant)

\* The last step: the static sample when the list is still empty, then return
Finish(games, tr, pr) ==
  LET static == StrategyNeeded(games)
  IN /\ spc' = "done"
     /\ sgames' = IF static THEN StaticGames(variant) ELSE games
     /\ tried' = IF static THEN Append(tr, "static") ELSE tr
     /\ produced' = IF static THEN [pr EXCEPT !.static = StaticGames(variant)] ELSE pr
     /\ sresult' = Resolved(sgames')

\* scrapeMLBData() is called: the page request goes out
ScrapeCall ==
  /\ spc = "init"
  /\ spc' = "fetching"
  /\ UNCHANGED <<variant, page, tried, produced, sgames, apiCalls, sfailure, sresult>>
  /\ UNCHANGED <<predictVars, pureVars, pipeVars, siteVars>>

\* The document loaded: the outcome r of the page strategies decides between
\* the catch block, the stats API request and the return
PageLoaded(pg, r) ==
  /\ page' = pg
  /\ IF r.threw
       THEN /\ Caught("strategy")
            /\ tried' = r.tried
            /\ UNCHANGED <<produced, sgames, apiCalls>>
     ELSE IF variant # "table" /\ StrategyNeeded(r.games)
       THEN /\ spc' = "api"
            /\ apiCalls' = apiCalls + 1
            /\ tried' = Append(r.tried, "api")
            /\ produced' = r.produced
            /\ sgames' = r.games
            /\ UNCHANGED <<sfailure, sresult>>
     ELSE /\ Finish(r.games, r.tried, r.produced)
          /\ UNCHANGED <<apiCalls, sfailure>>

\* The page request settles; everything up to the next await runs
PageResponse ==
  /\ spc = "fetching"
  /\ \E o \in FetchOutcomes :
       IF o.kind # "page"
         THEN /\ Caught(o.kind)
              /\ UNCHANGED <<page, tried, produced, sgames, apiCalls>>
         ELSE PageLoaded(o.page, PageStrategies(variant, o.page))
  /\ UNCHANGED variant
  /\ UNCHANGED <<predictVars, pureVars, pipeVars, siteVars>>

\* The try block around the stats API request ends with the list games
ApiDone(games, threw) ==
  /\ sfailure' = IF threw THEN "api" ELSE sfailure
  /\ Finish(games, tried, [produced EXCEPT !.api = Added(sgames, games)])

\* The stats API request settles inside its own try block
ApiResponse ==
  /\ spc = "api"
  /\ \E o \in ApiOutcomes :
       ApiDone(IF o.kind = "data" /\ o.hasDates
                 THEN ApiGames(variant, o.games, sgames) ELSE sgames,
               \/ o.kind = "error"
               \/ o.hasDates /\ \E i \in 1..Len(o.games) : ~o.games[i].wellFormed)
  /\ UNCHANGED <<variant, page, apiCalls>>
  /\ UNCHANGED <<predictVars, pureVars, pipeVars, siteVars>>

ScrapeOff ==
  /\ variant = "none"
  /\ spc = "off"
  /\ page = NoPage
  /\ tried = <<>>
  /\ produced = NoneProduced
  /\ sgames = <<>>
  /\ apiCalls = 0
  /\ sfailure = "none"
  /\ sresult = Pending

----------------------------------------------------------------------------
(* Functions run on their own *)

PureOff ==
  /\ fargs = <<>>
  /\ fout = <<>>

\* Raw names the resolver is run on: every key of the dictionary and names
\* that are no key
RawNames ==
  {teamAbbreviations[i][1] : i \in 1..Len(teamAbbreviations)}
    \cup {<<"U", "n", "k", "n", "o", "w", "n", " ", "T", "e", "a", "m", " ", "X", "Y", "Z">>,
          <<"U", "n", "k", "n", "o", "w", "n", " ", "T", "e", "a", "m", " ", "A", "B", "C">>,
          <<"S", "u", "g", "a", "r", " ", "L", "a", "n", "d", " ", "S", "p", "a", "c", "e", " ", "C", "o", "w", "b", "o", "y", "s">>,
          <<"N", "Y">>,
          <<>>,
          <<"b", "o", "s", "t", "o", "n">>,
          <<"B", "o", "s", "t", "o", "n", " ", "R", "e", "d", " ", "S", "o", "x", " ", "(", "h", "o", "m", "e", ")">>,
          <<"a", "t", " ", "N", "e", "w", " ", "Y", "o", "r", "k", " ", "Y", "a", "n", "k", "e", "e", "s">>,
          <<"c", "o", "n", "s", "t", "r", "u", "c", "t", "o", "r">>,
          <<"t", "o", "S", "t", "r", "i", "n", "g">>,
          <<"L", "A">>,
          <<"A", "r", "i", "z", "o", "n", "a", " ", "D", "i", "a", "m", "o", "n", "d", "b", "a", "c", "k", "s", " ", "E", "a", "s", "t">>}

\* parseTeamName(fargs[1]), then parseTeamName(fargs[2])
Resolve ==
  /\ Len(fout) < Len(fargs)
  /\ fout' = Append(fout, parseTeamName(fargs[Len(fout) + 1]))
  /\ UNCHANGED fargs
  /\ UNCHANGED <<predictVars, scrapeVars, pipeVars, siteVars>>

\* getFallbackPrediction(provider, game) with its two Math.random draws: the
\* two win fractions it computes and the text it returns
FallbackPredict ==
  /\ fout = <<>>
  /\ fout' = <<[homeWinPct |-> WinPct(parseRecord(fargs.homeRecord)),
                awayWinPct |-> WinPct(parseRecord(fargs.awayRecord)),
                text |-> getFallbackPrediction(fargs.provider,
                  [id |-> "1",
                   homeTeam |-> [name |-> <<"Arizona Diamondbacks">>,
                                 record |-> fargs.homeRecord],
                   awayTeam |-> [name |-> <<"Washington Nationals">>,
                                 record |-> fargs.awayRecord]],
                  fargs.r4, fargs.r3)]>>
  /\ UNCHANGED fargs
  /\ UNCHANGED <<predictVars, scrapeVars, pipeVars, siteVars>>

\* parseEasternTimeToISO applied to the fields of a matched time cell
ParseTime ==
  /\ fout = <<>>
  /\ fout' = <<parseEasternTimeToISO(fargs.month, fargs.day, fargs.year,
                                     fargs.hour, fargs.minute, fargs.ampm)>>
  /\ UNCHANGED fargs
  /\ UNCHANGED <<predictVars, scrapeVars, pipeVars, siteVars>>

----------------------------------------------------------------------------
(* The pipeline: main *)

\* Largest batch the pipeline is run on
MaxGames == 2

\* Retries one provider call makes in a pipeline run
MaxPipeRetries == 1

\* Providers whose answer may be the empty string in a pipeline run
EmptyAnswers == {"openai", "deepseek"}

\* main is not running
PipeIdle ==
  /\ ppc = "off"
  /\ batch = 0
  /\ pkeys = {}
  /\ mongoConnected = FALSE
  /\ pidx = 0
  /\ req = [g \in 1..MaxGames |-> [p \in Providers |-> "none"]]
  /\ tries = [g \in 1..MaxGames |-> [p \in Providers |-> 0]]
  /\ gstat = [g \in 1..MaxGames |-> "pending"]
  /\ rendered = "none"
  /\ preds = [g \in 1..MaxGames |-> [p \in Providers |-> "none"]]
  /\ closeCalls = 0
  /\ exitCode = 0

PipeOff ==
  /\ rev = "none"
  /\ PipeIdle

\* Promise.all of the four provider promises of game i has resolved
Joined_Any(i) == \E p \in Providers : req[i][p] \in {"settled", "empty"}

Joined(i) == \A p \in Providers : req[i][p] \in {"settled", "empty"}

\* A provider call starts: without a credential it resolves with its fallback
\* text at once, otherwise its request is sent
Started(p) == IF p \in pkeys THEN "flying" ELSE "settled"

\* The head of the for loop with i (counted from 1) over a batch of n games,
\* after statuses gs, requests rq and predictions ps: past the last game main
\* calls updateHtmlWithPredictions(games).  Otherwise the current revision
\* presets the four placeholder texts, and the provider calls start: all four
\* in getAllPredictions, or the first alone in the "service" revision, which
\* awaits them one after another
LoopHead(i, n, gs, rq, ps) ==
  /\ pidx' = i
  /\ IF i > n
       THEN /\ ppc' = "render"
            /\ gstat' = gs
            /\ req' = rq
            /\ preds' = ps
     ELSE /\ ppc' = "predict"
          /\ gstat' = [gs EXCEPT ![i] = "predicting"]
          /\ req' = [rq EXCEPT ![i] =
                       [p \in Providers |->
                          IF rev = "service" /\ p # ProviderOrder[1]
                            THEN "none" ELSE Started(p)]]
          /\ preds' = IF rev = "current"
                        THEN [ps EXCEPT ![i] = [p \in Providers |-> "placeholder"]]
                      ELSE ps

\* main is called: the earlier revision returns when index.html is missing;
\* otherwise scrapeMLBData is called
MainCalled ==
  /\ ppc = "main"
  /\ \E found \in BOOLEAN :
       ppc' = IF rev = "earlier" /\ ~found THEN "done" ELSE "scrape"
  /\ UNCHANGED <<rev, batch, pkeys, mongoConnected, pidx, req, tries, gstat,
                 rendered, preds, closeCalls, exitCode>>
  /\ UNCHANGED <<predictVars, scrapeVars, pureVars, siteVars>>

\* scrapeMLBData resolves with the batch, which only the "service" revision
\* of the scraper can leave empty.  The "service" revision of main returns on
\* an empty batch and otherwise enters the loop; the others call
\* mongoService.connect()
GamesFetched ==
  /\ ppc = "scrape"
  /\ \E n \in 0..MaxGames :
       /\ n = 0 => rev = "service"
       /\ batch' = n
       /\ IF rev # "service"
            THEN /\ ppc' = "connect"
                 /\ UNCHANGED <<pidx, req, gstat, preds>>
          ELSE IF n = 0
            THEN /\ ppc' = "done"
                 /\ UNCHANGED <<pidx, req, gstat, preds>>
          ELSE LoopHead(1, n, gstat, req, preds)
  /\ UNCHANGED <<rev, pkeys, mongoConnected, tries, rendered, closeCalls, exitCode>>
  /\ UNCHANGED <<predictVars, scrapeVars, pureVars, siteVars>>

\* mongoService.connect() settles: a rejection is caught in the current
\* revision and ends main in the earlier one; then the loop starts
Connected ==
  /\ ppc = "connect"
  /\ \E o \in {"ok", "refused", "throws"} :
       IF rev = "earlier" /\ o = "throws"
         THEN /\ ppc' = "done"
              /\ UNCHANGED <<mongoConnected, pidx, req, gstat, preds>>
       ELSE /\ mongoConnected' = (o = "ok")
            /\ LoopHead(1, batch, gstat, req, preds)
  /\ UNCHANGED <<rev, batch, pkeys, tries, rendered, closeCalls, exitCode>>
  /\ UNCHANGED <<predictVars, scrapeVars, pureVars, siteVars>>

\* The response to provider p's request for game g: an answer, which may be
\* the empty string, settles the call; a failure is retried after a backoff
\* while retries are left and otherwise settles the call with the fallback
ProviderResponse(g, p) ==
  /\ req[g][p] = "flying"
  /\ \E o \in {"text", "empty", "error"} :
       /\ o = "empty" => p \in EmptyAnswers
       /\ IF o = "error" /\ tries[g][p] < MaxPipeRetries
            THEN /\ req' = [req EXCEPT ![g][p] = "backoff"]
                 /\ tries' = [tries EXCEPT ![g][p] = @ + 1]
          ELSE /\ req' = [req EXCEPT ![g][p] = IF o = "empty" THEN "empty" ELSE "settled"]
               /\ tries' = [tries EXCEPT ![g][p] = 0]
  /\ UNCHANGED <<rev, ppc, batch, pkeys, mongoConnected, pidx, gstat, rendered,
                 preds, closeCalls, exitCode>>
  /\ UNCHANGED <<predictVars, scrapeVars, pureVars, siteVars>>

\* The backoff timer of provider p's call for game g fires: the request is
\* sent again
RetryRequest(g, p) ==
  /\ req[g][p] = "backoff"
  /\ req' = [req EXCEPT ![g][p] = "flying"]
  /\ UNCHANGED <<rev, ppc, batch, pkeys, mongoConnected, pidx, tries, gstat,
                 rendered, preds, closeCalls, exitCode>>
  /\ UNCHANGED <<predictVars, scrapeVars, pureVars, siteVars>>

\* The "service" revision: the awaited provider call has resolved and main
\* calls getPrediction for the next provider
SequentialCall ==
  /\ rev = "service"
  /\ ppc = "predict"
  /\ \E k \in 2..Len(ProviderOrder) :
       /\ req[pidx][ProviderOrder[k]] = "none"
       /\ req[pidx][ProviderOrder[k - 1]] \in {"settled", "empty"}
       /\ req' = [req EXCEPT ![pidx][ProviderOrder[k]] = Started(ProviderOrder[k])]
  /\ UNCHANGED <<rev, ppc, batch, pkeys, mongoConnected, pidx, tries, gstat,
                 rendered, preds, closeCalls, exitCode>>
  /\ UNCHANGED <<predictVars, scrapeVars, pureVars, siteVars>>

\* Mutant: every value is taken as it came
Assigned_AsReturned(i) ==
  [preds EXCEPT ![i] =
     [p \in Providers |-> IF req[i][p] # "empty" THEN "text" ELSE "empty"]]

\* The predictions main keeps for game i once the provider calls resolved:
\* the current revision replaces a placeholder only by a truthy text, the
\* others take every value as it came
Assigned(i) ==
  [preds EXCEPT ![i] =
     [p \in Providers |->
        IF req[i][p] # "empty" THEN "text"
        ELSE IF rev = "current" THEN preds[i][p] ELSE "empty"]]

\* The requests once the answers of game i were taken: an answer is settled
\* whatever its text
Answered(i) ==
  [req EXCEPT ![i] = [p \in Providers |-> IF req[i][p] = "empty" THEN "settled" ELSE req[i][p]]]

\* The provider calls of the game have resolved: main sets the game's
\* predictions and calls storePredictions (when connected; the "service"
\* revision always does); otherwise it goes on with the loop
PredictionsReturned ==
  /\ ppc = "predict"
  /\ Joined(pidx)
  /\ IF mongoConnected \/ rev = "service"
       THEN /\ ppc' = "store"
            /\ gstat' = [gstat EXCEPT ![pidx] = "storing"]
            /\ req' = Answered(pidx)
            /\ preds' = Assigned(pidx)
            /\ UNCHANGED pidx
     ELSE LoopHead(pidx + 1, batch, [gstat EXCEPT ![pidx] = "unstored"],
                   Answered(pidx),
                   Assigned(pidx))
  /\ UNCHANGED <<rev, batch, pkeys, mongoConnected, tries, rendered, closeCalls, exitCode>>
  /\ UNCHANGED <<predictVars, scrapeVars, pureVars, siteVars>>

\* storePredictions settles: success, { success: false } or a rejection. The
\* current revision catches the rejection inside the loop; in the earlier one
\* it reaches main's catch, which only logs; the "service" revision catches it
\* and replaces the game's predictions by four fixed texts
StoreReturned ==
  /\ ppc = "store"
  /\ \E o \in {"stored", "refused", "threw"} :
       IF rev = "earlier" /\ o = "threw"
         THEN /\ ppc' = "done"
              /\ gstat' = [gstat EXCEPT ![pidx] = o]
              /\ UNCHANGED <<pidx, req, preds>>
       ELSE LoopHead(pidx + 1, batch, [gstat EXCEPT ![pidx] = o], req,
                     IF rev = "service" /\ o = "threw"
                       THEN [preds EXCEPT ![pidx] = [p \in Providers |-> "text"]]
                     ELSE preds)
  /\ UNCHANGED <<rev, batch, pkeys, mongoConnected, tries, rendered, closeCalls, exitCode>>
  /\ UNCHANGED <<predictVars, scrapeVars, pureVars, siteVars>>

\* Mutant: the connection is closed whether or not it was opened
MustClose_Always == TRUE

\* if (mongoConnected) before mongoService.close()
MustClose == mongoConnected

\* updateHtmlWithPredictions(games) resolves with true or false; when
\* connected main calls mongoService.close()
RenderReturned ==
  /\ ppc = "render"
  /\ rendered' \in {"written", "failed"}
  /\ ppc' = IF MustClose THEN "close" ELSE "done"
  /\ closeCalls' = IF MustClose THEN closeCalls + 1 ELSE closeCalls
  /\ UNCHANGED <<rev, batch, pkeys, mongoConnected, pidx, req, tries, gstat,
                 preds, exitCode>>
  /\ UNCHANGED <<predictVars, scrapeVars, pureVars, siteVars>>

\* mongoService.close() settles; main ends either way
Closed ==
  /\ ppc = "close"
  /\ ppc' = "done"
  /\ UNCHANGED <<rev, batch, pkeys, mongoConnected, pidx, req, tries, gstat,
                 rendered, preds, closeCalls, exitCode>>
  /\ UNCHANGED <<predictVars, scrapeVars, pureVars, siteVars>>

----------------------------------------------------------------------------
(* The prediction store and the page *)

SiteOff ==
  /\ records = <<>>
  /\ clock = 0
  /\ stored = <<>>
  /\ html = <<>>
  /\ runs = 0

\* Store calls made in one run of the store
MaxStoreCalls == 3

\* Indices of the persisted records with the gameId
RecordsOf(recs, gameId) == {i \in 1..Len(recs) : recs[i].gameId = gameId}

\* The store's write with gameId as unique key: without a record of the
\* gameId one is inserted, otherwise its predictions and updatedAt are replaced
Upsert_Append(recs, gameId, predictions, now) ==
  Append(recs, [gameId |-> gameId, predictions |-> predictions,
                createdAt |-> now, updatedAt |-> now])

Upsert(recs, gameId, predictions, now) ==
  IF RecordsOf(recs, gameId) = {}
    THEN Append(recs, [gameId |-> gameId, predictions |-> predictions,
                       createdAt |-> now, updatedAt |-> now])
  ELSE [i \in 1..Len(recs) |->
          IF recs[i].gameId = gameId
            THEN [recs[i] EXCEPT !.predictions = predictions, !.updatedAt = now]
          ELSE recs[i]]

\* mongoService.storePredictions for a game and its predictions, at a clock
\* reading later than the previous call's: the write succeeds or fails, and a
\* failed write leaves the records alone
StorePredictions ==
  /\ Len(stored) < MaxStoreCalls
  /\ \E gameId \in {"chc-stl", "nyy-bos"}, predictions \in {"texts A", "texts B"},
        success \in BOOLEAN, now \in {clock + 1, clock + 2} :
       /\ clock' = now
       /\ records' = IF success THEN Upsert(records, gameId, predictions, now)
                     ELSE records
       /\ stored' = Append(stored, [gameId |-> gameId, predictions |-> predictions,
                                    success |-> success, at |-> now])
  /\ UNCHANGED <<html, runs>>
  /\ UNCHANGED <<predictVars, scrapeVars, pureVars, pipeVars>>

\* Pipeline runs made against one page
MaxRuns == 5

\* A piece of the page: a tag, or a last-updated marker comment written at
\* time at
Piece(t) == [t |-> t, at |-> 0]

Marker(at) == [t |-> "marker", at |-> at]

\* String.prototype.replace with a pattern without the g flag: the first
\* piece of kind t is replaced by the pieces repl; without such a piece the
\* text is returned as it is
ReplaceFirst(h, t, repl) ==
  IF \E i \in 1..Len(h) : h[i].t = t
    THEN SubSeq(h, 1, (CHOOSE i \in 1..Len(h) : h[i].t = t /\ \A j \in 1..(i - 1) : h[j].t # t) - 1)
           \o repl
           \o SubSeq(h, (CHOOSE i \in 1..Len(h) : h[i].t = t /\ \A j \in 1..(i - 1) : h[j].t # t) + 1, Len(h))
  ELSE h

\* The marker step of updateHtmlWithPredictions.  The current revision
\* replaces the marker comment when the page has one and otherwise puts one
\* after <head>; the earlier revision puts one before </head>
WriteMarker(rv, h, at) ==
  IF rv = "current"
    THEN IF \E i \in 1..Len(h) : h[i].t = "marker"
           THEN ReplaceFirst(h, "marker", <<Marker(at)>>)
         ELSE ReplaceFirst(h, "<head>", <<Piece("<head>"), Marker(at)>>)
  ELSE ReplaceFirst(h, "</head>", <<Marker(at), Piece("</head>")>>)

\* One run of the pipeline against the page: updateHtmlWithPredictions writes
\* the page, or fails on the file and leaves it as it was
PageRun ==
  /\ runs < MaxRuns
  /\ runs' = runs + 1
  /\ \E written \in BOOLEAN :
       html' = IF written THEN WriteMarker(rev, html, runs + 1) ELSE html
  /\ UNCHANGED <<records, clock, stored>>
  /\ UNCHANGED <<predictVars, scrapeVars, pureVars, pipeVars>>

----------------------------------------------------------------------------
(* Specifications *)

\* A call of getAllPredictions(game) or of getPrediction(provider, game), for
\* every credential configuration
Init ==
  /\ \/ mode = "all" /\ target = "none"
     \/ mode = "one" /\ target \in Providers
  /\ game \in SampleGames
  /\ apiKeys \in [Providers -> BOOLEAN]
  /\ PredictIdle
  /\ PipeOff
  /\ SiteOff
  /\ ScrapeOff
  /\ PureOff

Next ==
  \/ CallAll
  \/ CallOne
  \/ \E p \in Providers : HttpResponse(p)
  \/ \E p \in Providers : BackoffElapsed(p)
  \/ ReturnAll
  \/ ReturnOne

Spec == Init /\ [][Next]_vars

\* The prediction service when every awaited step is eventually taken: each
\* axios.post settles, each setTimeout fires, and the event loop resumes a
\* function whose awaited promise has settled
Fairness ==
  /\ \A p \in Providers : WF_vars(HttpResponse(p))
  /\ \A p \in Providers : WF_vars(BackoffElapsed(p))
  /\ WF_vars(ReturnAll)
  /\ WF_vars(ReturnOne)

SpecLive == Init /\ [][Next]_vars /\ Fairness

\* A call of scrapeMLBData() in each revision of the scraper
InitScrape ==
  /\ mode = "off" /\ target = "none"
  /\ game = CHOOSE g \in SampleGames : TRUE
  /\ apiKeys = [p \in Providers |-> FALSE]
  /\ PredictIdle
  /\ PipeOff
  /\ SiteOff
  /\ variant \in {"multi", "service", "table"}
  /\ spc = "init"
  /\ page = NoPage
  /\ tried = <<>>
  /\ produced = NoneProduced
  /\ sgames = <<>>
  /\ apiCalls = 0
  /\ sfailure = "none"
  /\ sresult = Pending
  /\ PureOff

NextScrape ==
  \/ ScrapeCall
  \/ PageResponse
  \/ ApiResponse

SpecScrape == InitScrape /\ [][NextScrape]_vars

\* parseTeamName called on two raw names, one after the other
InitResolve ==
  /\ mode = "off" /\ target = "none"
  /\ game = CHOOSE g \in SampleGames : TRUE
  /\ apiKeys = [p \in Providers |-> FALSE]
  /\ PredictIdle
  /\ PipeOff
  /\ SiteOff
  /\ ScrapeOff
  /\ fargs \in RawNames \X RawNames
  /\ fout = <<>>

NextResolve == Resolve

SpecResolve == InitResolve /\ [][NextResolve]_vars

\* getFallbackPrediction called for every provider (a name outside the four
\* takes the default branch of its switch), pair of records and pair of
\* random draws
InitFallback ==
  /\ mode = "off" /\ target = "none"
  /\ game = CHOOSE g \in SampleGames : TRUE
  /\ apiKeys = [p \in Providers |-> FALSE]
  /\ PredictIdle
  /\ PipeOff
  /\ SiteOff
  /\ ScrapeOff
  /\ \E provider \in Providers \cup {"other"}, r4 \in WinDraws, r3 \in LoseDraws,
        homeRecord, awayRecord \in
          {<<"5", "0", "-", "1", "0">>,
           <<"1", "0", "-", "5", "0">>,
           <<"0", "-", "1", "0">>,
           <<"0", "-", "0">>,
           <<"2", "7", "-", "3", "1">>,
           <<"2", "8", "-", "3", "0">>,
           <<>>,
           <<"T", "B", "D">>} :
       fargs = [provider |-> provider, homeRecord |-> homeRecord,
                awayRecord |-> awayRecord, r4 |-> r4, r3 |-> r3]
  /\ fout = <<>>

NextFallback == FallbackPredict

SpecFallback == InitFallback /\ [][NextFallback]_vars

\* main of the pipeline is called, in either revision, with any set of
\* provider credentials
InitPipeline ==
  /\ mode = "off" /\ target = "none"
  /\ game = CHOOSE g \in SampleGames : TRUE
  /\ apiKeys = [p \in Providers |-> FALSE]
  /\ PredictIdle
  /\ ScrapeOff
  /\ PureOff
  /\ SiteOff
  /\ rev \in {"current", "earlier", "service"}
  /\ ppc = "main"
  /\ batch = 0
  /\ pkeys \in SUBSET Providers
  /\ mongoConnected = FALSE
  /\ pidx = 0
  /\ req = [g \in 1..MaxGames |-> [p \in Providers |-> "none"]]
  /\ tries = [g \in 1..MaxGames |-> [p \in Providers |-> 0]]
  /\ gstat = [g \in 1..MaxGames |-> "pending"]
  /\ rendered = "none"
  /\ preds = [g \in 1..MaxGames |-> [p \in Providers |-> "none"]]
  /\ closeCalls = 0
  /\ exitCode = 0

NextPipeline ==
  \/ MainCalled
  \/ GamesFetched
  \/ Connected
  \/ \E g \in 1..MaxGames, p \in Providers : ProviderResponse(g, p)
  \/ \E g \in 1..MaxGames, p \in Providers : RetryRequest(g, p)
  \/ SequentialCall
  \/ PredictionsReturned
  \/ StoreReturned
  \/ RenderReturned
  \/ Closed

SpecPipeline == InitPipeline /\ [][NextPipeline]_vars

\* parseEasternTimeToISO called on clock readings of days in winter and
\* summer and of the days around the two changes of 2025 and 2026
InitTime ==
  /\ mode = "off" /\ target = "none"
  /\ game = CHOOSE g \in SampleGames : TRUE
  /\ apiKeys = [p \in Providers |-> FALSE]
  /\ PredictIdle
  /\ PipeOff
  /\ SiteOff
  /\ ScrapeOff
  /\ \E date \in {<<1, 15, 2025>>, <<3, 8, 2025>>, <<3, 9, 2025>>, <<3, 10, 2025>>,
                  <<7, 4, 2025>>, <<11, 1, 2025>>, <<11, 2, 2025>>, <<11, 3, 2025>>,
                  <<3, 8, 2026>>, <<11, 1, 2026>>},
        hour \in {12, 1, 3, 7}, minute \in {0, 30}, ampm \in {"AM", "PM"} :
       fargs = [month |-> date[1], day |-> date[2], year |-> date[3],
                hour |-> hour, minute |-> minute, ampm |-> ampm]
  /\ fout = <<>>

NextTime == ParseTime

SpecTime == InitTime /\ [][NextTime]_vars

\* Every machine idle: the state before a run of the store or of the page
InitIdle ==
  /\ mode = "off" /\ target = "none"
  /\ game = CHOOSE g \in SampleGames : TRUE
  /\ apiKeys = [p \in Providers |-> FALSE]
  /\ PredictIdle
  /\ PipeOff
  /\ SiteOff
  /\ ScrapeOff
  /\ PureOff

NextStore == StorePredictions

SpecStore == InitIdle /\ [][NextStore]_vars

\* A page with a <head> element, fresh or carrying the marker of an earlier
\* run, before the runs of one revision of the pipeline
InitPage ==
  /\ mode = "off" /\ target = "none"
  /\ game = CHOOSE g \in SampleGames : TRUE
  /\ apiKeys = [p \in Providers |-> FALSE]
  /\ PredictIdle
  /\ ScrapeOff
  /\ PureOff
  /\ PipeIdle
  /\ rev \in {"current", "earlier"}
  /\ records = <<>>
  /\ clock = 0
  /\ stored = <<>>
  /\ runs = 0
  /\ html \in {<<Piece("<html>"), Piece("<head>"), Piece("<title>"), Piece("</head>"),
                 Piece("<body>")>>,
               WriteMarker(rev, <<Piece("<html>"), Piece("<head>"), Piece("<title>"),
                                  Piece("</head>"), Piece("<body>")>>, 0)}

NextPage == PageRun

SpecPage == InitPage /\ [][NextPage]_vars

----------------------------------------------------------------------------
(* Properties of the prediction service *)

Settled(p) == pc[p] = "done"

NonEmptyEntry(e) == \A t \in Texts(e, game) : t # <<>>

StatusesOf(p) == [i \in 1..Len(hist[p]) |-> hist[p][i].status]

\* A 2xx response whose envelope carries a completion string
HasText(o) == o.status = 200 /\ o.body # "malformed"

\* An error response whose HTTP status is 429 or 5xx
TransientStatus(o) == o.status = 429 \/ o.status \in 500..599

\* An error response with an HTTP status that is neither 429 nor 5xx
NonTransientStatus(o) == o.status \in (400..499) \ {429}

\* C1: getAllPredictions returns an entry for each of the four providers and
\* every entry is a non-empty string, whatever the credentials and whatever
\* each HTTP call does.
C1_AllEntriesNonEmpty ==
  (mode = "all" /\ allPc = "returned") =>
     \A p \in Providers : p \in DOMAIN returned /\ NonEmptyEntry(returned[p])

\* C2: a provider call whose first two attempts fail with status 500 goes on
\* to a third attempt; when that attempt succeeds the call returns its
\* trimmed completion text, not the fallback, and the delay waited before
\* the third attempt is not shorter than the one before the second.
C2_RetryThenSuccess ==
  \A p \in Providers :
    (Settled(p) /\ Len(hist[p]) >= 2 /\ hist[p][1].status = 500 /\ hist[p][2].status = 500) =>
       /\ Len(hist[p]) = 3
       /\ Len(waits[p]) = 2
       /\ waits[p][2] >= waits[p][1]
       /\ HasText(hist[p][3]) => result[p] = LlmEntry(p, Trim(Content(p, hist[p][3].body)))

C2_Witness ==
  \E p \in Providers :
    /\ Settled(p)
    /\ StatusesOf(p) = <<500, 500, 200>>
    /\ hist[p][3].body = "text"
    /\ result[p].kind = "llm"
    /\ result[p].text # <<>>
    /\ allPc = "returned"

\* C3: when every attempt of a provider call fails with a transient status
\* (429 or 5xx) the call makes exactly 3 attempts, waits 1000 ms before the
\* second and 2000 ms before the third, never makes a fourth attempt and
\* returns the provider's fallback.
C3_TransientExhausted ==
  \A p \in Providers :
    /\ httpCalls[p] <= 3
    /\ (Settled(p) /\ Len(hist[p]) >= 1
          /\ \A i \in 1..Len(hist[p]) : TransientStatus(hist[p][i])) =>
         /\ Len(hist[p]) = 3
         /\ httpCalls[p] = 3
         /\ waits[p] = <<1000, 2000>>
         /\ result[p] = FallbackEntry(p)

C3_Witness ==
  \E p \in Providers :
    /\ Settled(p)
    /\ StatusesOf(p) = <<429, 500, 503>>
    /\ result[p] = FallbackEntry(p)
    /\ allPc = "returned"

\* C4: an attempt that fails with a non-transient status (neither 429 nor
\* 5xx) is the call's last attempt: no backoff follows it and the call
\* returns the provider's fallback; when it is the first attempt, exactly
\* one request was made and no delay was waited.
C4_NonTransientNotRetried ==
  \A p \in Providers : \A i \in 1..Len(hist[p]) :
    NonTransientStatus(hist[p][i]) =>
       /\ i = Len(hist[p])
       /\ Settled(p)
       /\ httpCalls[p] = i
       /\ Len(waits[p]) = i - 1
       /\ result[p] = FallbackEntry(p)

C4_Witness ==
  \E p \in Providers :
    /\ StatusesOf(p) = <<401>>
    /\ httpCalls[p] = 1
    /\ waits[p] = <<>>
    /\ allPc = "returned"
    /\ mode = "one"
    /\ returned = FallbackEntry(p)

\* C5 (as claimed): an attempt that got no response (timeout) counts as a
\* transient failure, so the call does not end after that first attempt.
C5_TimeoutRetried ==
  \A p \in Providers :
    (Len(hist[p]) >= 1 /\ hist[p][1].status = 0) => ~(Settled(p) /\ Len(hist[p]) = 1)

\* C5 (amended): an attempt that got no response (timeout, no HTTP status)
\* is not retried: it is the call's last attempt, no backoff follows it and
\* the call returns the provider's fallback.
C5_TimeoutNotRetried ==
  \A p \in Providers : \A i \in 1..Len(hist[p]) :
    hist[p][i].status = 0 =>
       /\ i = Len(hist[p])
       /\ Settled(p)
       /\ httpCalls[p] = i
       /\ Len(waits[p]) = i - 1
       /\ result[p] = FallbackEntry(p)

C5_Witness ==
  \E p \in Providers :
    /\ StatusesOf(p) = <<0>>
    /\ Settled(p)
    /\ waits[p] = <<>>
    /\ result[p] = FallbackEntry(p)

\* C6: a provider without a configured credential never receives an HTTP
\* request and its entry is the fallback, whatever the other providers'
\* credentials are.
C6_NoKeyNoRequest ==
  \A p \in Providers :
    ~apiKeys[p] =>
       /\ httpCalls[p] = 0
       /\ hist[p] = <<>>
       /\ pc[p] \in {"idle", "done"}
       /\ pc[p] = "done" => result[p] = FallbackEntry(p)
       /\ (allPc = "returned" /\ mode = "all") => returned[p] = FallbackEntry(p)
       /\ (allPc = "returned" /\ mode = "one" /\ target = p) => returned = FallbackEntry(p)

C6_Witness ==
  \E p, q \in Providers :
    /\ ~apiKeys[p]
    /\ apiKeys[q]
    /\ mode = "all"
    /\ allPc = "returned"
    /\ httpCalls[q] = 3
    /\ returned[p] = FallbackEntry(p)

\* C7: in getAllPredictions all four provider calls are started before any
\* response is handled, the call returns only after all four have settled
\* and then returns each provider's own settled value: a provider whose last
\* attempt carried a completion keeps it, whatever the others did.
C7_ConcurrentJoin ==
  mode = "all" =>
    /\ (\E p \in Providers : pc[p] # "idle") => \A q \in Providers : pc[q] # "idle"
    /\ allPc = "pending" => \A q \in Providers : pc[q] # "idle"
    /\ allPc = "returned" =>
         \A p \in Providers :
           /\ Settled(p)
           /\ returned[p] = result[p]
           /\ (Len(hist[p]) >= 1 /\ HasText(hist[p][Len(hist[p])])) =>
                returned[p] = LlmEntry(p, Trim(Content(p, hist[p][Len(hist[p])].body)))

C7_Witness ==
  \E p, q \in Providers :
    /\ mode = "all"
    /\ allPc = "returned"
    /\ returned[p].kind = "llm"
    /\ Len(hist[p]) = 1
    /\ returned[q] = FallbackEntry(q)
    /\ Len(waits[q]) = 2

\* Provider p's call ended with a completion: it holds a credential and its
\* last HTTP attempt was answered 200 with a well-formed envelope
Completed(p) ==
  /\ apiKeys[p]
  /\ hist[p] # <<>>
  /\ hist[p][Len(hist[p])].status = 200
  /\ hist[p][Len(hist[p])].body # "malformed"

\* C26: whatever the order in which the four provider calls of
\* getAllPredictions complete, the value returned under a provider's key is
\* the outcome of that provider's own call: its completion text when its call
\* ended with one, its own fallback otherwise.
C26_OwnOutcomePerProvider ==
  (mode = "all" /\ allPc = "returned") =>
    \A p \in Providers :
      /\ returned[p].provider = p
      /\ returned[p].kind = (IF Completed(p) THEN "llm" ELSE "fallback")
      /\ (Completed(p) /\ hist[p][Len(hist[p])].body = "text") =>
           \E i \in 1..Len(returned[p].text) : returned[p].text[i] = p

\* getAllPredictions returned after the four calls ended differently: two
\* completions, one after a retry, and two fallbacks
C26_Witness ==
  /\ mode = "all" /\ allPc = "returned"
  /\ Completed("openai") /\ Len(hist["openai"]) = 2
  /\ ~Completed("anthropic") /\ Len(hist["anthropic"]) = 1
  /\ Completed("grok") /\ Len(hist["grok"]) = 1
  /\ ~apiKeys["deepseek"]
  /\ returned["openai"].kind = "llm"
  /\ returned["anthropic"].kind = "fallback"

----------------------------------------------------------------------------
(* Properties of the schedule scraper *)

GameFields == {"id", "homeTeam", "awayTeam", "venue", "note"}

\* The run ended in the outer catch block
OuterFailure == sfailure \in {"fetch", "parse", "strategy"}

\* C8: scrapeMLBData never throws or rejects to its caller: whatever fails (the
\* page request, the loading of the document, a strategy, the stats API
\* request), the promise is never rejected, and once the run has ended it is
\* resolved with a list of games.
C8_ScrapeNeverRejects ==
  /\ sresult.state # "rejected"
  /\ spc = "done" =>
       /\ sresult.state = "resolved"
       /\ \A i \in 1..Len(sresult.games) : DOMAIN sresult.games[i] = GameFields

\* A run in which a strategy threw has ended with a resolved promise
C8_Witness ==
  /\ spc = "done"
  /\ sfailure = "strategy"
  /\ sresult.state = "resolved"

\* C9: in the multi-strategy revisions the strategies run in the order table,
\* card, free-text, stats API, static sample; a strategy is attempted only if
\* every earlier one produced no game, no strategy that was not attempted
\* contributed a game, and a run that did not end in the outer catch block
\* returns exactly the games of the last strategy attempted, which is the
\* first that produced at least one.
C9_StrategyCascade ==
  variant \in {"multi", "service"} =>
    /\ \A k \in 1..Len(tried) :
         /\ k <= Len(StrategyOrder)
         /\ tried[k] = StrategyOrder[k]
         /\ \A j \in 1..(k - 1) : produced[tried[j]] = <<>>
    /\ \A s \in DOMAIN produced :
         (\A k \in 1..Len(tried) : tried[k] # s) => produced[s] = <<>>
    /\ (spc = "done" /\ ~OuterFailure) =>
         /\ tried # <<>>
         /\ produced[tried[Len(tried)]] # <<>>
         /\ sresult = [state |-> "resolved", games |-> produced[tried[Len(tried)]]]

\* The card strategy produced the games after the table strategy found none,
\* and nothing ran after it
C9_Witness ==
  /\ variant \in {"multi", "service"}
  /\ spc = "done"
  /\ tried = <<"table", "card">>
  /\ produced.table = <<>>
  /\ sresult.games = produced.card
  /\ sresult.games # <<>>

ReturnedStatic ==
  /\ spc = "done"
  /\ ~OuterFailure
  /\ tried # <<>>
  /\ tried[Len(tried)] = "static"

\* The run returned games of the page or of the stats API
ReturnedSourced ==
  /\ spc = "done"
  /\ ~OuterFailure
  /\ tried # <<>>
  /\ tried[Len(tried)] # "static"

\* C11: when the page strategies and the stats API yield no game, scrape returns
\* exactly the fixed static sample of its revision: the sample is non-empty and
\* every game of it carries a marker field (note), which no game scraped from
\* the page or taken from the stats API carries.
C11_StaticSampleMarked ==
  /\ ReturnedStatic =>
       /\ sresult.games # <<>>
       /\ variant = "multi" => sresult.games = DynamicGames(NoteNoData)
       /\ variant = "service" => sresult.games = ManualGamesService
       /\ variant = "table" => sresult.games = ManualGames
       /\ \A i \in 1..Len(sresult.games) : sresult.games[i].note # <<>>
  /\ ReturnedSourced =>
       \A i \in 1..Len(sresult.games) : sresult.games[i].note = <<>>

\* C12: the list scrape returns is never empty, whatever the page request, the
\* page strategies and the stats API do, every error path included.
C12_ScrapeNeverEmpty ==
  spc = "done" => sresult.games # <<>>

\* lowercase(away abbreviation) + "-" + lowercase(home abbreviation) of a game
SlugOf(g) ==
  toLowerCase(g.awayTeam.abbreviation) \o <<"-">> \o toLowerCase(g.homeTeam.abbreviation)

C14_IdsUnique ==
  spc = "done" =>
    \A i, j \in 1..Len(sresult.games) :
      i # j => sresult.games[i].id # sresult.games[j].id

----------------------------------------------------------------------------
(* Properties of the team name resolver *)

IsKey(name) == \E i \in 1..Len(teamAbbreviations) : teamAbbreviations[i][1] = name

\* The team a dictionary key denotes, named by the abbreviation it maps to
TeamOfKey(name) ==
  teamAbbreviations[CHOOSE i \in 1..Len(teamAbbreviations) : teamAbbreviations[i][1] = name][2]

ContainsKey(name) ==
  \E i \in 1..Len(teamAbbreviations) : Includes(name, teamAbbreviations[i][1])

\* C15: for two dictionary keys that denote the same team, as "Boston" and
\* "Boston Red Sox", the resolver returns the same canonical name and the same
\* abbreviation.
C15_SameTeamSameResult ==
  (/\ Len(fout) = 2
   /\ IsKey(fargs[1]) /\ IsKey(fargs[2])
   /\ TeamOfKey(fargs[1]) = TeamOfKey(fargs[2])) =>
    /\ fout[1].abbreviation = fout[2].abbreviation
    /\ fout[1].fullName = fout[2].fullName

\* C16: for a raw name that is no dictionary key and contains none, the
\* resolver returns the raw name unchanged as canonical name and its first
\* three characters, uppercased, as abbreviation ("Unknown Team XYZ" gives
\* "UNK").
C16_DefaultAbbreviation ==
  \A k \in 1..Len(fout) :
    (~IsKey(fargs[k]) /\ ~ContainsKey(fargs[k])) =>
      /\ fout[k].fullName = fargs[k]
      /\ fout[k].abbreviation = toUpperCase(SubSeq(fargs[k], 1, IF Len(fargs[k]) < 3 THEN Len(fargs[k]) ELSE 3))
      /\ fargs[k] = <<"U", "n", "k", "n", "o", "w", "n", " ", "T", "e", "a", "m", " ", "X", "Y", "Z">> => fout[k].abbreviation = <<"U", "N", "K">>

\* A sequence of uppercase letters
IsUpperWord(a) == \A i \in 1..Len(a) : \E j \in 1..Len(Uppers) : Uppers[j] = a[i]

\* The name is resolved through the dictionary: it is a key or contains one
ThroughDictionary(name) ==
  IsKey(name) \/ (ContainsKey(name) /\ name \notin InheritedKeys)

\* The name reaches the default branch
ReachesDefault(name) ==
  ~IsKey(name) /\ ~ContainsKey(name) /\ name \notin InheritedKeys

\* C24 as stated: every abbreviation the resolver produces, from the
\* dictionary or from the default branch, consists of 3 or 4 uppercase
\* letters.
C24_ThreeOrFourLetters ==
  \A k \in 1..Len(fout) :
    (ThroughDictionary(fargs[k]) \/ ReachesDefault(fargs[k])) =>
      /\ Len(fout[k].abbreviation) \in {3, 4}
      /\ IsUpperWord(fout[k].abbreviation)

\* C24: an abbreviation taken from the dictionary consists of 2 or 3
\* uppercase letters; the default branch gives the first three characters of
\* the raw name (all of a shorter name) with no lowercase letter left.
C24_AbbreviationShape ==
  \A k \in 1..Len(fout) :
    /\ ThroughDictionary(fargs[k]) =>
         /\ Len(fout[k].abbreviation) \in {2, 3}
         /\ IsUpperWord(fout[k].abbreviation)
    /\ ReachesDefault(fargs[k]) =>
         /\ Len(fout[k].abbreviation) = (IF Len(fargs[k]) < 3 THEN Len(fargs[k]) ELSE 3)
         /\ \A i \in 1..Len(fout[k].abbreviation) :
              \A j \in 1..Len(Lowers) : Lowers[j] # fout[k].abbreviation[i]

\* A key with a two-letter abbreviation and a name without a key were resolved
C24_Witness ==
  /\ Len(fout) = 2
  /\ fargs[1] = <<"K", "a", "n", "s", "a", "s", " ", "C", "i", "t", "y", " ", "R", "o", "y", "a", "l", "s">>
  /\ fout[1].abbreviation = <<"K", "C">>
  /\ ReachesDefault(fargs[2])
  /\ Len(fargs[2]) > 3

\* The first key, in declaration order, that the name contains
FirstKeyIn(name) ==
  teamAbbreviations[SetMin({i \in 1..Len(teamAbbreviations) :
                              Includes(name, teamAbbreviations[i][1])})]

\* C25: a name that is a dictionary key resolves to itself with the key's
\* abbreviation; any other name that contains a key resolves to the first
\* such key in declaration order, as canonical name, with its abbreviation,
\* also when a later and longer key is contained too ("Arizona Diamondbacks
\* East" resolves to the key "Arizona").
C25_ExactThenFirstKey ==
  \A k \in 1..Len(fout) :
    /\ IsKey(fargs[k]) =>
         fout[k] = [fullName |-> fargs[k], abbreviation |-> TeamOfKey(fargs[k])]
    /\ (~IsKey(fargs[k]) /\ ThroughDictionary(fargs[k])) =>
         fout[k] = [fullName |-> FirstKeyIn(fargs[k])[1],
                    abbreviation |-> FirstKeyIn(fargs[k])[2]]
    /\ fargs[k] = <<"A", "r", "i", "z", "o", "n", "a", " ", "D", "i", "a", "m", "o", "n", "d", "b", "a", "c", "k", "s", " ", "E", "a", "s", "t">> =>
         fout[k].fullName = <<"A", "r", "i", "z", "o", "n", "a">>

\* "Arizona Diamondbacks East" was resolved to the key "Arizona"
C25_Witness ==
  /\ Len(fout) >= 1
  /\ fargs[1] = <<"A", "r", "i", "z", "o", "n", "a", " ", "D", "i", "a", "m", "o", "n", "d", "b", "a", "c", "k", "s", " ", "E", "a", "s", "t">>
  /\ fout[1] = [fullName |-> <<"A", "r", "i", "z", "o", "n", "a">>, abbreviation |-> <<"A", "R", "I">>]

----------------------------------------------------------------------------
(* Properties of the fallback predictor *)

\* Index of the ": " that ends the team names of the score line
ScoreAt(text) == CHOOSE i \in 1..Len(text) : text[i] = ": "

\* The scores of the score line "<away> - <home>: <awayScore>-<homeScore>"
AwayScoreOf(text) == DigitVal(text[ScoreAt(text) + 1])

HomeScoreOf(text) == DigitVal(text[ScoreAt(text) + 3])

\* C17: with home record "50-10" and away record "10-50" (home fraction plus
\* 0.05 above the away fraction) every output of the fallback predictor, for
\* every provider and every random draw, has a score line in which the home
\* score is greater than the away score.
C17_HomeFavouredHomeWins ==
  (/\ Len(fout) = 1
   /\ fargs.homeRecord = <<"5", "0", "-", "1", "0">>
   /\ fargs.awayRecord = <<"1", "0", "-", "5", "0">>) =>
    HomeScoreOf(fout[1].text) > AwayScoreOf(fout[1].text)

\* A fraction <<n, d>> equals wins / (wins + losses), or 1/2 without decisions
IsWinFraction(f, rec) ==
  IF rec.wins + rec.losses > 0
    THEN f[1] * (rec.wins + rec.losses) = rec.wins * f[2]
    ELSE f[1] * 2 = f[2]

\* C18: a team's win fraction is wins / (wins + losses) whenever the team has
\* at least one decision, a team without a win included, and 0.5 only when it
\* has none.
C18_WinFraction ==
  Len(fout) = 1 =>
    /\ IsWinFraction(fout[1].homeWinPct, parseRecord(fargs.homeRecord))
    /\ IsWinFraction(fout[1].awayWinPct, parseRecord(fargs.awayRecord))

----------------------------------------------------------------------------
(* Properties of the pipeline *)

\* The provider requests outstanding, as <<game, provider>>
InFlight == {x \in (1..MaxGames) \X Providers : req[x[1]][x[2]] = "flying"}

\* Game g is finished: its provider calls are settled and its persistence
\* call, if one was made, has returned
GameFinished(g) ==
  /\ \A p \in Providers : req[g][p] = "settled"
  /\ gstat[g] \in {"stored", "refused", "threw", "unstored"}

\* C19: the games of a batch are processed one at a time: when the
\* predictions of a game have been requested every earlier game is finished
\* (provider calls settled, persistence call returned), the requests in flight
\* all belong to one game, and at most four requests are outstanding.
C19_OneGameAtATime ==
  /\ \A i, j \in 1..MaxGames :
       (i < j /\ gstat[j] # "pending") => GameFinished(i)
  /\ \A x, y \in InFlight : x[1] = y[1]
  /\ Cardinality(InFlight) <= 4

\* All four requests of the second game are outstanding after the first game
\* was persisted
C19_Witness ==
  /\ gstat[1] = "stored"
  /\ gstat[2] = "predicting"
  /\ Cardinality(InFlight) = 4

\* C20: when persisting one game failed (storePredictions threw or reported
\* success = false), main ends with every game of the batch predicted and
\* its persistence attempted, and with updateHtmlWithPredictions called on
\* the batch.
C20_StoreFailureTolerated ==
  (ppc = "done" /\ \E i \in 1..batch : gstat[i] \in {"refused", "threw"}) =>
    /\ \A j \in 1..batch : gstat[j] \in {"stored", "refused", "threw"}
    /\ rendered # "none"

\* storePredictions was called for game g
StoreCalled(g) == gstat[g] \in {"storing", "stored", "refused", "threw"}

\* C27: in the current revision of main, when mongoService.connect() returned
\* false or threw, the run goes on: storePredictions and close are never
\* called, and the run ends with every game predicted and the page rendered;
\* when connect succeeded close is called exactly once, after the render step.
C27_ConnectFailureTolerated ==
  rev = "current" =>
    /\ (ppc \notin {"main", "scrape", "connect"} /\ ~mongoConnected) =>
         /\ \A g \in 1..MaxGames : ~StoreCalled(g)
         /\ closeCalls = 0
    /\ (ppc = "done" /\ ~mongoConnected) =>
         /\ \A g \in 1..batch : gstat[g] = "unstored"
         /\ rendered # "none"
    /\ closeCalls <= 1
    /\ closeCalls = 1 => (mongoConnected /\ rendered # "none")
    /\ (ppc = "done" /\ mongoConnected) => closeCalls = 1

\* A run of the current revision ended without a connection, with two games
\* predicted and the page written
C27_Witness ==
  /\ rev = "current"
  /\ ppc = "done"
  /\ ~mongoConnected
  /\ batch = 2
  /\ gstat[2] = "unstored"
  /\ rendered = "written"

ScrapedEmpty == ppc = "done" /\ batch = 0 /\ rev # "earlier"

\* C21: when the scrape returns an empty list the run ends with a non-zero
\* exit code and without any prediction, persistence or render step.
C21_EmptyBatchAborts ==
  ScrapedEmpty =>
    /\ exitCode # 0
    /\ rendered = "none"
    /\ \A g \in 1..MaxGames :
         gstat[g] = "pending" /\ \A p \in Providers : req[g][p] = "none"

----------------------------------------------------------------------------
(* Properties of the prediction store *)

\* The successful store calls for the gameId, as indices of the call log
WritesOf(gameId) ==
  {k \in 1..Len(stored) : stored[k].gameId = gameId /\ stored[k].success}

\* C22: after any sequence of store calls there is at most one record per
\* gameId; once a gameId was stored there is exactly one, its predictions are
\* those of the latest call for it, and of two calls for it the later left a
\* strictly greater updatedAt than the earlier.
C22_UpsertIdempotent ==
  \A k \in 1..Len(stored) :
    LET id == stored[k].gameId
        last == CHOOSE j \in WritesOf(id) : \A i \in WritesOf(id) : i <= j
    IN  /\ Cardinality(RecordsOf(records, id)) <= 1
        /\ WritesOf(id) # {} =>
             /\ Cardinality(RecordsOf(records, id)) = 1
             /\ \A r \in RecordsOf(records, id) :
                  /\ records[r].predictions = stored[last].predictions
                  /\ records[r].updatedAt = stored[last].at
             /\ \A i, j \in WritesOf(id) : i < j => stored[i].at < stored[j].at

\* One gameId was stored twice, with different predictions
C22_Witness ==
  \E i, j \in WritesOf("chc-stl") :
    /\ i < j
    /\ stored[i].predictions # stored[j].predictions
    /\ Len(records) = 1

----------------------------------------------------------------------------
(* Properties of the time conversion *)

\* The Eastern clock reading of the call, in minutes since 1970-01-01 00:00
\* on the wall clock
WallMinutes ==
  DaysFromCivil(fargs.year, fargs.month, fargs.day) * 1440
    + ((fargs.hour % 12) + (IF fargs.ampm = "PM" THEN 12 ELSE 0)) * 60 + fargs.minute

\* Daylight time is in effect at the reading: from 03:00 of the second Sunday
\* of March up to 01:00 of the first Sunday of November
DaylightInEffect ==
  /\ WallMinutes >= DaysFromCivil(fargs.year, 3, FirstSunday(fargs.year, 3) + 7) * 1440 + 180
  /\ WallMinutes < DaysFromCivil(fargs.year, 11, FirstSunday(fargs.year, 11)) * 1440 + 60

\* Standard time is in effect at the reading: before 02:00 of the second
\* Sunday of March or from 02:00 of the first Sunday of November
StandardInEffect ==
  \/ WallMinutes < DaysFromCivil(fargs.year, 3, FirstSunday(fargs.year, 3) + 7) * 1440 + 120
  \/ WallMinutes >= DaysFromCivil(fargs.year, 11, FirstSunday(fargs.year, 11)) * 1440 + 120

\* C23: the UTC instant computed for an Eastern clock reading is the reading
\* plus 4 hours when daylight time is in effect at that reading and plus 5
\* hours when standard time is, on the days of the change as on any other.
C23_OffsetOfTheMoment ==
  Len(fout) = 1 =>
    /\ DaylightInEffect => fout[1] = WallMinutes + 240
    /\ StandardInEffect => fout[1] = WallMinutes + 300

----------------------------------------------------------------------------
(* Termination of the prediction service *)

\* C29: getAllPredictions always terminates: when every HTTP attempt settles,
\* no provider makes more than DefaultRetries attempts and a pending
\* getAllPredictions eventually returns its result.
C29_PredictAllTerminates ==
  /\ [](\A p \in Providers : httpCalls[p] <= DefaultRetries)
  /\ (mode = "all" /\ allPc = "pending") ~> (mode = "all" /\ allPc = "returned")

\* getAllPredictions has returned after a provider used up its attempts
C29_Witness ==
  /\ mode = "all"
  /\ allPc = "returned"
  /\ \E p \in Providers : httpCalls[p] = DefaultRetries /\ returned[p].kind = "fallback"

----------------------------------------------------------------------------
(* Properties of the page *)

\* The marker comments of the page, as indices
Markers == {i \in 1..Len(html) : html[i].t = "marker"}

\* C30: once a run has written the page, the page holds exactly one
\* last-updated marker comment: a run replaces the marker it finds and never
\* adds a second one.
C30_OneMarker ==
  (\E i \in Markers : html[i].at >= 1) => Cardinality(Markers) = 1

====
